---- MODULE Spec2Model ----
(***************************************************************************)
(* State-machine model of the ChatSDK class of src/src/sdk/types.ts (the   *)
(* signed + MAC'd variant of the chat SDK), with the Waku transport        *)
(* modelled as an open publish/subscribe bus: at-least-once, unordered,    *)
(* and open to payloads published by parties other than the SDK.           *)
(*                                                                         *)
(* keccak256 is modelled as a collision-free hash: the hash of x is the    *)
(* tuple <<"keccak256", x>> (or a string that embeds the preimage).        *)
(* Date.now() timestamps are left out of the Message record: no branch of  *)
(* the SDK reads them.                                                     *)
(***************************************************************************)
EXTENDS Naturals, Sequences, FiniteSets, TLC

VARIABLES
    identity,                \* this.identity   (per SDK instance)
    node,                    \* this.node       (per SDK instance)
    conversations,           \* this.conversations : id -> Conversation
    encryptionKeys,          \* this.encryptionKeys, in Map insertion order
    store,                   \* this.store : conversation id -> Message[]
    processedMessageIds,     \* this.processedMessageIds
    messageHandlers,         \* this.messageHandlers : id -> MessageHandler[]
    subscribedConversations, \* this.subscribedConversations
    filterSubscriptions,     \* callbacks registered with node.filter, per conversation id
    subscribing,             \* subscribeToConversation calls awaiting filter.subscribe
    resubscribeTimers,       \* pending setTimeout re-subscriptions
    publishing,              \* sendMessage/revokeMessage calls inside retryWithTimeout
    handlerLog,              \* per instance: the handler invocations, in order
    network,                 \* payloads the transport holds (published)
    delivered,               \* the transport callbacks so far: who got which payload
    created,                 \* every message built by sendMessage/revokeMessage
    uuidCounter,             \* number of uuidv4() values drawn for messages
    groupCounter,            \* number of uuidv4() values drawn for group ids
    foreignCount,            \* number of payloads published by outside parties
    options,                 \* this.options (constructor argument)
    localStorage,            \* the 'waku-chat-identity' item of each device's localStorage
    roundTrip,               \* one encryptMessage/decryptMessage round: inputs and results
    historyCalls,            \* per instance: its fetchHistory call and what it returned
    retryRun                 \* one run of retryWithTimeout: loop counter, attempts, errors

vars == <<identity, node, conversations, encryptionKeys, store,
          processedMessageIds, messageHandlers, subscribedConversations,
          filterSubscriptions, subscribing, resubscribeTimers, publishing, handlerLog, network, delivered,
          created, uuidCounter, groupCounter, foreignCount, options, localStorage, roundTrip,
          historyCalls, retryRun>>

(***************************************************************************)
(* Bounds of the model.                                                    *)
(***************************************************************************)
MaxMsgs == 2        \* message ids drawn by sendMessage and revokeMessage
MaxGroups == 1      \* group conversation ids drawn
MaxConvs == 1       \* conversations one instance creates
MaxHandlers == 1    \* handlers registered per instance
MaxLog == 2         \* handler invocations recorded per instance
MaxOpenMsgs == 1    \* the same, on the open network
MaxForeign == 1     \* payloads published by outside parties
MaxFanoutGroups == 3 \* group ids drawn in the fan-out scenario
MaxFanoutMsgs == 1  \* message ids drawn in the fan-out scenario
MaxTimers == 1      \* re-subscribe timers pending at once
MaxInflight == 1    \* sendMessage/revokeMessage calls inside the retry loop at once
MaxSubscribing == 2  \* subscribeToConversation calls awaiting filter.subscribe at once

(***************************************************************************)
(* Program constants.                                                      *)
(***************************************************************************)
PublishRetries == 5

Peers == {"A", "B", "C"}
PeerOrder == <<"A", "B", "C">>      \* the lexicographic order of the peer ids
Pair == {"A", "B"}                  \* the two instances of the direct-chat scenarios
Handlers == {"h1"}
Contents == {"hi"}

Null == "null"
Undefined == "undefined"     \* an absent string-valued field
NoHash == <<>>               \* an absent signature / mac field

NoIdentity == [peerId |-> Null, publicKey |-> Null]   \* this.identity = null
UserIdentity(p) == [peerId |-> p, publicKey |-> "pk" \o p]

(***************************************************************************)
(* Pure helpers.                                                           *)
(***************************************************************************)
\* the ids a caller may pass as participants, in the code-unit order sort()
\* uses: a string sorts after its proper prefixes
IdOrder == <<"A", "B", "B_C", "C">>
ParticipantIds == {IdOrder[i] : i \in 1..Len(IdOrder)}

Rank(p) == CHOOSE i \in 1..Len(IdOrder) : IdOrder[i] = p

\* [...new Set(list)] : first occurrences, in order
RECURSIVE Dedup(_)
Dedup(s) ==
    IF s = <<>> THEN <<>>
    ELSE LET r == Dedup(SubSeq(s, 1, Len(s) - 1))
             last == s[Len(s)]
         IN IF \E i \in 1..Len(r) : r[i] = last THEN r ELSE Append(r, last)

\* Array.prototype.sort() on strings
RECURSIVE SortStrings(_)
SortStrings(s) ==
    IF s = <<>> THEN <<>>
    ELSE LET rest == SortStrings(Tail(s))
             x == s[1]
             before == SelectSeq(rest, LAMBDA y : Rank(y) < Rank(x))
             after == SelectSeq(rest, LAMBDA y : ~(Rank(y) < Rank(x)))
         IN before \o <<x>> \o after

\* Array.prototype.join('_')
RECURSIVE Join(_)
Join(s) ==
    IF s = <<>> THEN ""
    ELSE IF Len(s) = 1 THEN s[1]
    ELSE s[1] \o "_" \o Join(Tail(s))

Uuid(i) == ToString(i)
MessageId(i) == "m" \o Uuid(i)

generateConversationId(participants, type, uuid) ==
    IF type = "direct"
    THEN Join(SortStrings(participants))
    ELSE "group_" \o uuid

\* the key is a hash of conversation id and the instance's own public key
generateEncryptionKey(n, conversationId) ==
    "keccak256(" \o conversationId \o "_" \o identity[n].publicKey \o ")"

\* XOR with the key stream: a ciphertext is the plaintext under one key
encryptMessage(plaintext, key) == [key |-> key, plain |-> plaintext]

\* XOR with another key stream yields bytes JSON.parse rejects
decryptMessage(ciphertext, key) ==
    [parses |-> ciphertext.key = key, message |-> ciphertext.plain]

\* JSON.stringify({...message, signature: undefined}) hashed
signMessage(message) ==
    <<"keccak256", [message EXCEPT !.signature = NoHash]>>

verifySignature(message) ==
    IF message.signature = NoHash THEN FALSE
    ELSE message.signature = <<"keccak256", [message EXCEPT !.signature = NoHash]>>

\* JSON.stringify({...message, signature: undefined, mac: undefined}) + key hashed
generateMAC(message, key) ==
    <<"keccak256", [message EXCEPT !.signature = NoHash, !.mac = NoHash], key>>

verifyMAC(message, key) ==
    IF message.mac = NoHash THEN FALSE
    ELSE message.mac =
         <<"keccak256", [message EXCEPT !.signature = NoHash, !.mac = NoHash], key>>

getContentTopic(conversationId) == "/waku/chat/1/proto"

getMessages(n, conversationId) ==
    IF conversationId \in DOMAIN store[n] THEN store[n][conversationId] ELSE <<>>

KeyOf(n, conversationId) ==
    LET hits == SelectSeq(encryptionKeys[n], LAMBDA e : e.id = conversationId)
    IN IF hits = <<>> THEN Null ELSE hits[1].key

\* the projection with a tombstone hiding only what precedes it in the log
VisibleMessagesEarlierOnly(n, conversationId) ==
    LET messages == getMessages(n, conversationId)
        hidden == {i \in 1..Len(messages) :
                      \E j \in (i + 1)..Len(messages) :
                          /\ messages[j].type = "tombstone"
                          /\ messages[j].tombstoneFor = messages[i].id}
        kept[i \in 0..Len(messages)] ==
            IF i = 0 THEN <<>>
            ELSE IF messages[i].type # "tombstone" /\ i \notin hidden
                 THEN Append(kept[i - 1], messages[i])
                 ELSE kept[i - 1]
    IN kept[Len(messages)]

\* the projection the consumer (and the test) applies to getMessages
VisibleMessages(n, conversationId) ==
    LET messages == getMessages(n, conversationId)
        isRevoked(m) == \E i \in 1..Len(messages) :
                            /\ messages[i].type = "tombstone"
                            /\ messages[i].tombstoneFor = m.id
    IN SelectSeq(messages, LAMBDA m : m.type # "tombstone" /\ ~isRevoked(m))

(***************************************************************************)
(* Store and handler registry.                                             *)
(***************************************************************************)
\* storeMessage without the processedMessageIds check
storeMessageAlways(st, message) ==
    [processed |-> st.processed \cup {message.id},
     store |->
        IF message.conversationId \in DOMAIN st.store
        THEN [st.store EXCEPT ![message.conversationId] = Append(@, message)]
        ELSE (message.conversationId :> <<message>>) @@ st.store]

\* storeMessage that looks the id up in the conversation's log instead
storeMessageUnlessListed(st, message) ==
    IF /\ message.conversationId \in DOMAIN st.store
       /\ \E i \in 1..Len(st.store[message.conversationId]) :
             st.store[message.conversationId][i].id = message.id
    THEN st
    ELSE storeMessageAlways(st, message)

\* st = [store, processed] of one instance; the result is the pair afterwards
storeMessage(st, message) ==
    IF message.id \in st.processed THEN st
    ELSE [processed |-> st.processed \cup {message.id},
          store |->
             IF message.conversationId \in DOMAIN st.store
             THEN [st.store EXCEPT ![message.conversationId] = Append(@, message)]
             ELSE (message.conversationId :> <<message>>) @@ st.store]

\* the invocations handlers?.forEach(handler => handler(message)) makes
notifyMessageHandlers(n, message) ==
    IF message.conversationId \in DOMAIN messageHandlers[n]
    THEN LET handlers == messageHandlers[n][message.conversationId]
         IN [i \in 1..Len(handlers) |-> [handler |-> handlers[i], message |-> message]]
    ELSE <<>>

HandlersOf(n, conversationId) ==
    IF conversationId \in DOMAIN messageHandlers[n]
    THEN messageHandlers[n][conversationId] ELSE <<>>

\* the handlers are invoked for a message that is not put in the log
NotifyWithoutStore(n, message) ==
    /\ handlerLog' = [handlerLog EXCEPT
                         ![n] = @ \o notifyMessageHandlers(n, message)]
    /\ UNCHANGED <<store, processedMessageIds>>

StoreAndNotify(n, message) ==
    LET st == storeMessage([store |-> store[n],
                            processed |-> processedMessageIds[n]], message)
    IN /\ store' = [store EXCEPT ![n] = st.store]
       /\ processedMessageIds' = [processedMessageIds EXCEPT ![n] = st.processed]
       /\ handlerLog' = [handlerLog EXCEPT
                            ![n] = @ \o notifyMessageHandlers(n, message)]

(***************************************************************************)
(* The byte level of encryptMessage/decryptMessage.  A string is a         *)
(* sequence of UTF-16 code units; TextEncoder.encode yields UTF-8 bytes,   *)
(* a lone surrogate becoming U+FFFD; TextDecoder.decode is the WHATWG      *)
(* UTF-8 decoder, which replaces malformed input by U+FFFD and, as         *)
(* new TextDecoder() leaves ignoreBOM false, drops a leading U+FEFF.       *)
(***************************************************************************)
ReplacementChar == 65533     \* U+FFFD
ByteOrderMark == 65279       \* U+FEFF
HighSurrogate == 55296       \* U+D800
LowSurrogate == 56320        \* U+DC00
CodeUnits == {104, 233, ByteOrderMark, HighSurrogate, LowSurrogate}
MaxPlaintextLen == 3
CipherKeys == {"k1", "k2"}

IsHighSurrogate(u) == u >= 55296 /\ u <= 56319
IsLowSurrogate(u) == u >= 56320 /\ u <= 57343

utf8Bytes(cp) ==
    IF cp < 128 THEN <<cp>>
    ELSE IF cp < 2048 THEN <<192 + (cp \div 64), 128 + (cp % 64)>>
    ELSE IF cp < 65536
         THEN <<224 + (cp \div 4096), 128 + ((cp \div 64) % 64), 128 + (cp % 64)>>
    ELSE <<240 + (cp \div 262144), 128 + ((cp \div 4096) % 64),
           128 + ((cp \div 64) % 64), 128 + (cp % 64)>>

RECURSIVE encodeFrom(_, _)
encodeFrom(str, i) ==
    IF i > Len(str) THEN <<>>
    ELSE IF IsHighSurrogate(str[i]) /\ i < Len(str) /\ IsLowSurrogate(str[i + 1])
         THEN utf8Bytes(65536 + (str[i] - 55296) * 1024 + (str[i + 1] - 56320))
              \o encodeFrom(str, i + 2)
    ELSE IF IsHighSurrogate(str[i]) \/ IsLowSurrogate(str[i])
         THEN utf8Bytes(ReplacementChar) \o encodeFrom(str, i + 1)
    ELSE utf8Bytes(str[i]) \o encodeFrom(str, i + 1)

TextEncoderEncode(str) == encodeFrom(str, 1)

codeUnits(cp) ==
    IF cp < 65536 THEN <<cp>>
    ELSE <<55296 + ((cp - 65536) \div 1024), 56320 + ((cp - 65536) % 1024)>>

\* the decoder's state: code point so far, bytes needed and seen, and the
\* bounds of the next continuation byte
RECURSIVE decodeFrom(_, _, _, _, _, _, _)
decodeFrom(bytes, i, cp, needed, seen, lower, upper) ==
    IF i > Len(bytes)
    THEN IF needed # 0 THEN <<ReplacementChar>> ELSE <<>>
    ELSE LET b == bytes[i] IN
         IF needed = 0
         THEN IF b <= 127 THEN <<b>> \o decodeFrom(bytes, i + 1, 0, 0, 0, 128, 191)
              ELSE IF b >= 194 /\ b <= 223
                   THEN decodeFrom(bytes, i + 1, b % 32, 1, 0, 128, 191)
              ELSE IF b >= 224 /\ b <= 239
                   THEN decodeFrom(bytes, i + 1, b % 16, 2, 0,
                                   IF b = 224 THEN 160 ELSE 128,
                                   IF b = 237 THEN 159 ELSE 191)
              ELSE IF b >= 240 /\ b <= 244
                   THEN decodeFrom(bytes, i + 1, b % 8, 3, 0,
                                   IF b = 240 THEN 144 ELSE 128,
                                   IF b = 244 THEN 143 ELSE 191)
              ELSE <<ReplacementChar>> \o decodeFrom(bytes, i + 1, 0, 0, 0, 128, 191)
         ELSE IF b < lower \/ b > upper
              THEN <<ReplacementChar>> \o decodeFrom(bytes, i, 0, 0, 0, 128, 191)
         ELSE IF seen + 1 = needed
              THEN codeUnits(cp * 64 + (b % 64))
                   \o decodeFrom(bytes, i + 1, 0, 0, 0, 128, 191)
         ELSE decodeFrom(bytes, i + 1, cp * 64 + (b % 64), needed, seen + 1, 128, 191)

TextDecoderDecode(bytes) ==
    LET decoded == decodeFrom(bytes, 1, 0, 0, 0, 128, 191)
    IN IF decoded # <<>> /\ decoded[1] = ByteOrderMark
       THEN SubSeq(decoded, 2, Len(decoded))
       ELSE decoded

RECURSIVE Xor(_, _)
Xor(a, b) ==
    IF a = 0 /\ b = 0 THEN 0
    ELSE (((a % 2) + (b % 2)) % 2) + 2 * Xor(a \div 2, b \div 2)

\* encoder.encode(keccak256(toUtf8Bytes(key)).slice(0, 32)): the characters
\* "0x" and thirty hexadecimal digits of the digest, which depend on the key
derivedKeyBytes(key) ==
    LET digits == IF key = "k1" THEN <<97, 49, 55>> ELSE <<51, 102, 48>>
    IN <<48, 120>> \o [i \in 1..30 |-> digits[((i - 1) % 3) + 1]]

XorWithKey(bytes, keyBytes) ==
    [i \in 1..Len(bytes) |-> Xor(bytes[i], keyBytes[((i - 1) % Len(keyBytes)) + 1])]

encryptMessageBytes(plaintext, key) ==
    XorWithKey(TextEncoderEncode(plaintext), derivedKeyBytes(key))

\* a decryptMessage that does not apply the key
decryptMessageBytesNoKey(ciphertext, key) == TextDecoderDecode(ciphertext)

decryptMessageBytes(ciphertext, key) ==
    TextDecoderDecode(XorWithKey(ciphertext, derivedKeyBytes(key)))

RECURSIVE StringsUpTo(_)
StringsUpTo(len) ==
    IF len = 0 THEN {<<>>}
    ELSE LET shorter == StringsUpTo(len - 1)
         IN shorter \cup {Append(str, u) : str \in shorter, u \in CodeUnits}

NoRoundTrip == [pc |-> "idle", plaintext |-> <<>>, key |-> Null,
                ciphertext |-> <<>>, decrypted |-> <<>>]

\* no retryWithTimeout run being followed
NoRetryRun == [pc |-> "idle", maxRetries |-> 0, i |-> 0, calls |-> <<>>,
               lastError |-> Null, thrown |-> Null]

\* no fetchHistory call made yet
NoHistoryCall == [pc |-> "idle", conversationId |-> Null, messages |-> <<>>]

(***************************************************************************)
(* The identity item of localStorage.  getItem yields null (NoItem), a     *)
(* text JSON.parse rejects (MalformedItem) or the JSON text of a value;    *)
(* on a device without usable storage every access throws.                 *)
(***************************************************************************)
NoItem == [kind |-> "none", value |-> NoIdentity]
MalformedItem == [kind |-> "malformed", value |-> NoIdentity]
StorageUnavailable == [kind |-> "throws", value |-> NoIdentity]
JSONstringify(value) == [kind |-> "json", value |-> value]

\* an identity of an earlier session of the user of device p
EarlierIdentity(p) == [peerId |-> p \o "0", publicKey |-> "pk" \o p \o "0"]
\* the parse result of the stored text "{}"
EmptyObject == [peerId |-> Undefined, publicKey |-> Undefined]

loadIdentity(item) ==
    IF item.kind = "json" THEN item.value ELSE NoIdentity

saveIdentity(item, id) ==
    IF item.kind = "throws" THEN item ELSE JSONstringify(id)

generateIdentity(n) == UserIdentity(n)

\* an init() that ignores the stored identity
initIdentityAlwaysFresh(n, supplied, item) ==
    [identity |-> generateIdentity(n),
     localStorage |-> saveIdentity(item, generateIdentity(n))]

\* init(identity?), lines 53-68: the identity it returns and the item it
\* leaves; supplied = NoIdentity is the call without argument
initIdentity(n, supplied, item) ==
    IF supplied = NoIdentity
    THEN IF loadIdentity(item) # NoIdentity
         THEN [identity |-> loadIdentity(item), localStorage |-> item]
         ELSE [identity |-> generateIdentity(n),
               localStorage |-> saveIdentity(item, generateIdentity(n))]
    ELSE [identity |-> supplied, localStorage |-> saveIdentity(item, supplied)]

(***************************************************************************)
(* Initial state: three freshly constructed instances, an empty transport. *)
(***************************************************************************)
Init ==
    /\ identity = [n \in Peers |-> NoIdentity]
    /\ node = [n \in Peers |-> Null]
    /\ conversations = [n \in Peers |-> <<>>]
    /\ encryptionKeys = [n \in Peers |-> <<>>]
    /\ store = [n \in Peers |-> <<>>]
    /\ processedMessageIds = [n \in Peers |-> {}]
    /\ messageHandlers = [n \in Peers |-> <<>>]
    /\ subscribedConversations = [n \in Peers |-> {}]
    /\ filterSubscriptions = [n \in Peers |-> <<>>]
    /\ subscribing = [n \in Peers |-> <<>>]
    /\ resubscribeTimers = [n \in Peers |-> {}]
    /\ publishing = {}
    /\ handlerLog = [n \in Peers |-> <<>>]
    /\ network = {}
    /\ delivered = {}
    /\ created = {}
    /\ uuidCounter = 0
    /\ groupCounter = 0
    /\ foreignCount = 0
    /\ \E b \in BOOLEAN : options = [n \in Peers |-> [storeMessages |-> b]]
    /\ localStorage = [n \in Peers |-> NoItem]
    /\ roundTrip = NoRoundTrip
    /\ historyCalls = [n \in Peers |-> NoHistoryCall]
    /\ retryRun = NoRetryRun

(***************************************************************************)
(* init(identity?): the identity is the supplied, the stored or a fresh    *)
(* one; the Waku node starts or, when createLightNode/start throws, stays  *)
(* null (offline mode).                                                    *)
(***************************************************************************)
init(n, supplied) ==
    /\ identity[n] = NoIdentity
    /\ identity' = [identity EXCEPT
                       ![n] = initIdentity(n, supplied, localStorage[n]).identity]
    /\ localStorage' = [localStorage EXCEPT
                       ![n] = initIdentity(n, supplied, localStorage[n]).localStorage]
    /\ \E started \in BOOLEAN :
          node' = [node EXCEPT ![n] = IF started THEN "node" ELSE Null]
    /\ UNCHANGED <<conversations, encryptionKeys, store, processedMessageIds,
                   messageHandlers, subscribedConversations,
                   filterSubscriptions, subscribing, resubscribeTimers,
                   publishing, handlerLog, network, delivered, created,
                   uuidCounter, groupCounter, foreignCount, options, roundTrip,
                   historyCalls, retryRun>>

(***************************************************************************)
(* Counters keyed by conversation id (absent = 0).                         *)
(***************************************************************************)
CountOf(f, c) == IF c \in DOMAIN f THEN f[c] ELSE 0

Incr(f, c) == (c :> CountOf(f, c) + 1) @@ f

Decr(f, c) ==
    IF CountOf(f, c) > 1 THEN (c :> f[c] - 1) @@ f
    ELSE [d \in DOMAIN f \ {c} |-> f[d]]

(***************************************************************************)
(* subscribeToConversation, one call that is not overlapped by another:    *)
(* the subscribed set and the filter callbacks afterwards, and whether the *)
(* catch block arms the 5 s re-subscribe timer.  accepted =                *)
(* node.filter.subscribe resolved.                                         *)
(***************************************************************************)
subscribeToConversation(n, conversationId, accepted) ==
    IF node[n] = Null \/ conversationId \in subscribedConversations[n]
    THEN [subscribed |-> subscribedConversations[n],
          filter |-> filterSubscriptions[n], retry |-> FALSE]
    ELSE IF accepted
    THEN [subscribed |-> subscribedConversations[n] \cup {conversationId},
          filter |-> Incr(filterSubscriptions[n], conversationId),
          retry |-> FALSE]
    ELSE [subscribed |-> subscribedConversations[n],
          filter |-> filterSubscriptions[n], retry |-> TRUE]

(***************************************************************************)
(* createConversation(participants, type)                                  *)
(***************************************************************************)
\* the participant list without the caller's own peerId
AllParticipantsWithoutSelf(self, participants) ==
    SortStrings(Dedup(participants))

\* [...new Set([this.identity.peerId, ...participants])].sort()
AllParticipants(self, participants) ==
    SortStrings(Dedup(<<self>> \o participants))

\* the id createConversation computes for the arguments
ConversationIdOn(n, participants, type) ==
    generateConversationId(AllParticipants(identity[n].peerId, participants),
                           type, Uuid(groupCounter + 1))

\* registry entry and key of a conversation that is not yet in the registry
Registered(n, participants, type) ==
    LET conversationId == ConversationIdOn(n, participants, type)
    IN [conversations |->
           (conversationId :>
               [id |-> conversationId, type |-> type,
                participants |-> AllParticipants(identity[n].peerId, participants)])
           @@ conversations[n],
        encryptionKeys |->
           Append(encryptionKeys[n],
                  [id |-> conversationId,
                   key |-> generateEncryptionKey(n, conversationId)])]

\* createConversation that registers, derives the key and subscribes
\* without looking for an existing entry
createConversationAnew(n, participants, type, accepted) ==
    LET conversationId == ConversationIdOn(n, participants, type)
        reg == Registered(n, participants, type)
        r == subscribeToConversation(n, conversationId, accepted)
    IN [returns |-> reg.conversations[conversationId],
        conversations |-> reg.conversations,
        encryptionKeys |-> reg.encryptionKeys,
        subscribed |-> r.subscribed,
        filter |-> r.filter,
        retry |-> r.retry]

\* createConversation that registers the conversation without deriving a key
createConversationKeyless(n, participants, type, accepted) ==
    LET conversationId == ConversationIdOn(n, participants, type)
    IN IF conversationId \in DOMAIN conversations[n]
       THEN [returns |-> conversations[n][conversationId],
             conversations |-> conversations[n],
             encryptionKeys |-> encryptionKeys[n],
             subscribed |-> subscribedConversations[n],
             filter |-> filterSubscriptions[n],
             retry |-> FALSE]
       ELSE LET reg == Registered(n, participants, type)
                r == subscribeToConversation(n, conversationId, accepted)
            IN [returns |-> reg.conversations[conversationId],
                conversations |-> reg.conversations,
                encryptionKeys |-> encryptionKeys[n],
                subscribed |-> r.subscribed,
                filter |-> r.filter,
                retry |-> r.retry]

\* what one call does to the instance, and the Conversation it returns
createConversationResult(n, participants, type, accepted) ==
    LET conversationId == ConversationIdOn(n, participants, type)
    IN IF conversationId \in DOMAIN conversations[n]
       THEN [returns |-> conversations[n][conversationId],
             conversations |-> conversations[n],
             encryptionKeys |-> encryptionKeys[n],
             subscribed |-> subscribedConversations[n],
             filter |-> filterSubscriptions[n],
             retry |-> FALSE]
       ELSE LET reg == Registered(n, participants, type)
                r == subscribeToConversation(n, conversationId, accepted)
            IN [returns |-> reg.conversations[conversationId],
                conversations |-> reg.conversations,
                encryptionKeys |-> reg.encryptionKeys,
                subscribed |-> r.subscribed,
                filter |-> r.filter,
                retry |-> r.retry]

createConversation(n, participants, type, accepted) ==
    /\ identity[n] # NoIdentity
    /\ LET conversationId == ConversationIdOn(n, participants, type)
           result == createConversationResult(n, participants, type, accepted)
       IN /\ groupCounter' = IF type = "group" THEN groupCounter + 1 ELSE groupCounter
          /\ conversations' = [conversations EXCEPT ![n] = result.conversations]
          /\ encryptionKeys' = [encryptionKeys EXCEPT ![n] = result.encryptionKeys]
          /\ subscribedConversations' =
                [subscribedConversations EXCEPT ![n] = result.subscribed]
          /\ filterSubscriptions' =
                [filterSubscriptions EXCEPT ![n] = result.filter]
          /\ resubscribeTimers' = [resubscribeTimers EXCEPT ![n] =
                IF result.retry THEN @ \cup {conversationId} ELSE @]
    /\ UNCHANGED <<identity, node, store, processedMessageIds, messageHandlers,
                   subscribing, publishing, handlerLog, network, delivered,
                   created, uuidCounter, foreignCount, options, localStorage, roundTrip,
                   historyCalls, retryRun>>

(***************************************************************************)
(* subscribe(conversationId, handler)                                      *)
(***************************************************************************)
subscribe(n, conversationId, handler, accepted) ==
    /\ messageHandlers' = [messageHandlers EXCEPT ![n] =
          (conversationId :> Append(HandlersOf(n, conversationId), handler)) @@ @]
    /\ LET r == subscribeToConversation(n, conversationId, accepted)
       IN /\ subscribedConversations' =
               [subscribedConversations EXCEPT ![n] = r.subscribed]
          /\ filterSubscriptions' = [filterSubscriptions EXCEPT ![n] = r.filter]
          /\ resubscribeTimers' = [resubscribeTimers EXCEPT ![n] =
               IF r.retry THEN @ \cup {conversationId} ELSE @]
    /\ UNCHANGED <<identity, node, conversations, encryptionKeys, store,
                   processedMessageIds, subscribing, publishing, handlerLog,
                   network, delivered, created, uuidCounter, groupCounter,
                   foreignCount, options, localStorage, roundTrip,
                   historyCalls, retryRun>>

\* the setTimeout callback of the catch block fires
Resubscribe(n, conversationId, accepted) ==
    /\ conversationId \in resubscribeTimers[n]
    /\ LET r == subscribeToConversation(n, conversationId, accepted)
       IN /\ subscribedConversations' =
               [subscribedConversations EXCEPT ![n] = r.subscribed]
          /\ filterSubscriptions' = [filterSubscriptions EXCEPT ![n] = r.filter]
          /\ resubscribeTimers' = [resubscribeTimers EXCEPT ![n] =
               IF r.retry THEN @ ELSE @ \ {conversationId}]
    /\ UNCHANGED <<identity, node, conversations, encryptionKeys, store,
                   processedMessageIds, messageHandlers, subscribing, publishing,
                   handlerLog, network, delivered, created, uuidCounter,
                   groupCounter, foreignCount, options, localStorage, roundTrip,
                   historyCalls, retryRun>>

(***************************************************************************)
(* The same operations when calls overlap.  subscribeToConversation checks *)
(* this.subscribedConversations, then awaits node.filter.subscribe, and    *)
(* adds the id to the set only after the await; a call that is made while  *)
(* another one is at the await runs the check against the old set.         *)
(***************************************************************************)
\* subscribeToConversation from its entry to the await
EnterSubscribe(n, conversationId) ==
    IF node[n] = Null \/ conversationId \in subscribedConversations[n]
    THEN subscribing[n]
    ELSE Incr(subscribing[n], conversationId)

\* createConversation up to the await inside subscribeToConversation
createConversationCall(n, participants, type) ==
    /\ identity[n] # NoIdentity
    /\ LET conversationId == ConversationIdOn(n, participants, type)
       IN /\ groupCounter' = IF type = "group" THEN groupCounter + 1 ELSE groupCounter
          /\ IF conversationId \in DOMAIN conversations[n]
             THEN UNCHANGED <<conversations, encryptionKeys, subscribing>>
             ELSE LET reg == Registered(n, participants, type)
                  IN /\ conversations' =
                           [conversations EXCEPT ![n] = reg.conversations]
                     /\ encryptionKeys' =
                           [encryptionKeys EXCEPT ![n] = reg.encryptionKeys]
                     /\ subscribing' = [subscribing EXCEPT
                                          ![n] = EnterSubscribe(n, conversationId)]
    /\ UNCHANGED <<identity, node, store, processedMessageIds, messageHandlers,
                   subscribedConversations, filterSubscriptions, resubscribeTimers,
                   publishing, handlerLog, network, delivered, created,
                   uuidCounter, foreignCount, options, localStorage, roundTrip,
                   historyCalls, retryRun>>

\* subscribe up to the await inside subscribeToConversation
subscribeCall(n, conversationId, handler) ==
    /\ messageHandlers' = [messageHandlers EXCEPT ![n] =
          (conversationId :> Append(HandlersOf(n, conversationId), handler)) @@ @]
    /\ subscribing' = [subscribing EXCEPT ![n] = EnterSubscribe(n, conversationId)]
    /\ UNCHANGED <<identity, node, conversations, encryptionKeys, store,
                   processedMessageIds, subscribedConversations,
                   filterSubscriptions, resubscribeTimers, publishing, handlerLog,
                   network, delivered, created, uuidCounter, groupCounter,
                   foreignCount, options, localStorage, roundTrip,
                   historyCalls, retryRun>>

\* the setTimeout callback fires: subscribeToConversation up to the await
ResubscribeCall(n, conversationId) ==
    /\ conversationId \in resubscribeTimers[n]
    /\ resubscribeTimers' = [resubscribeTimers EXCEPT ![n] = @ \ {conversationId}]
    /\ subscribing' = [subscribing EXCEPT ![n] = EnterSubscribe(n, conversationId)]
    /\ UNCHANGED <<identity, node, conversations, encryptionKeys, store,
                   processedMessageIds, messageHandlers, subscribedConversations,
                   filterSubscriptions, publishing, handlerLog, network,
                   delivered, created, uuidCounter, groupCounter, foreignCount,
                   options, localStorage, roundTrip,
                   historyCalls, retryRun>>

\* node.filter.subscribe of one pending call settles: the rest of
\* subscribeToConversation runs (add to the set, or arm the timer)
SubscribeSettles(n, conversationId, accepted) ==
    /\ CountOf(subscribing[n], conversationId) > 0
    /\ subscribing' = [subscribing EXCEPT ![n] = Decr(@, conversationId)]
    /\ IF accepted
       THEN /\ filterSubscriptions' =
                  [filterSubscriptions EXCEPT ![n] = Incr(@, conversationId)]
            /\ subscribedConversations' =
                  [subscribedConversations EXCEPT ![n] = @ \cup {conversationId}]
            /\ UNCHANGED resubscribeTimers
       ELSE /\ resubscribeTimers' =
                  [resubscribeTimers EXCEPT ![n] = @ \cup {conversationId}]
            /\ UNCHANGED <<filterSubscriptions, subscribedConversations>>
    /\ UNCHANGED <<identity, node, conversations, encryptionKeys, store,
                   processedMessageIds, messageHandlers, publishing, handlerLog,
                   network, delivered, created, uuidCounter, groupCounter,
                   foreignCount, options, localStorage, roundTrip,
                   historyCalls, retryRun>>

(***************************************************************************)
(* sendMessage(conversationId, content): build, sign, MAC, encrypt, store, *)
(* notify; then, with a node, enter retryWithTimeout(publish, 5).          *)
(***************************************************************************)
\* sendMessage without the not-initialized and conversation-not-found checks
sendMessageUnchecked(n, conversationId, content) ==
    /\ LET encryptionKey == KeyOf(n, conversationId)
           unsigned == [id |-> MessageId(uuidCounter + 1),
                        conversationId |-> conversationId,
                        sender |-> identity[n].peerId,
                        content |-> content,
                        type |-> "text",
                        tombstoneFor |-> Undefined,
                        signature |-> NoHash,
                        mac |-> NoHash]
           signed == [unsigned EXCEPT !.signature = signMessage(unsigned)]
           message == [signed EXCEPT !.mac = generateMAC(signed, encryptionKey)]
       IN /\ StoreAndNotify(n, message)
          /\ created' = created \cup {message}
          /\ publishing' =
                IF node[n] # Null
                THEN publishing \cup {[sdk |-> n, parked |-> FALSE,
                         contentTopic |-> getContentTopic(conversationId),
                         payload |-> encryptMessage(message, encryptionKey)]}
                ELSE publishing
    /\ uuidCounter' = uuidCounter + 1
    /\ UNCHANGED <<identity, node, conversations, encryptionKeys, messageHandlers,
                   subscribedConversations, filterSubscriptions, subscribing,
                   resubscribeTimers, network, delivered, groupCounter,
                   foreignCount, options, localStorage, roundTrip,
                   historyCalls, retryRun>>

sendMessage(n, conversationId, content) ==
    /\ identity[n] # NoIdentity
    /\ conversationId \in DOMAIN conversations[n]
    /\ KeyOf(n, conversationId) # Null
    /\ LET encryptionKey == KeyOf(n, conversationId)
           unsigned == [id |-> MessageId(uuidCounter + 1),
                        conversationId |-> conversationId,
                        sender |-> identity[n].peerId,
                        content |-> content,
                        type |-> "text",
                        tombstoneFor |-> Undefined,
                        signature |-> NoHash,
                        mac |-> NoHash]
           signed == [unsigned EXCEPT !.signature = signMessage(unsigned)]
           message == [signed EXCEPT !.mac = generateMAC(signed, encryptionKey)]
           encryptedPayload == encryptMessage(message, encryptionKey)
       IN /\ StoreAndNotify(n, message)
          /\ created' = created \cup {message}
          /\ publishing' =
                IF node[n] # Null
                THEN publishing \cup {[sdk |-> n, parked |-> FALSE,
                         contentTopic |-> getContentTopic(conversationId),
                         payload |-> encryptedPayload]}
                ELSE publishing
    /\ uuidCounter' = uuidCounter + 1
    /\ UNCHANGED <<identity, node, conversations, encryptionKeys, messageHandlers,
                   subscribedConversations,
                   filterSubscriptions, subscribing, resubscribeTimers, network,
                   delivered, groupCounter, foreignCount, options, localStorage, roundTrip,
                   historyCalls, retryRun>>

(***************************************************************************)
(* revokeMessage(conversationId, messageId): the author check looks the    *)
(* target up in the local log; the tombstone is signed, stored, notified   *)
(* and then published.                                                     *)
(***************************************************************************)
MayRevoke(n, conversationId, messageId) ==
    LET messages == getMessages(n, conversationId)
        found == SelectSeq(messages, LAMBDA msg : msg.id = messageId)
    IN ~(found # <<>> /\ found[1].sender # identity[n].peerId)

revokeMessage(n, conversationId, messageId) ==
    /\ identity[n] # NoIdentity
    /\ conversationId \in DOMAIN conversations[n]
    /\ MayRevoke(n, conversationId, messageId)
    /\ LET unsigned == [id |-> MessageId(uuidCounter + 1),
                        conversationId |-> conversationId,
                        sender |-> identity[n].peerId,
                        content |-> "",
                        type |-> "tombstone",
                        tombstoneFor |-> messageId,
                        signature |-> NoHash,
                        mac |-> NoHash]
           tombstoneMessage == [unsigned EXCEPT !.signature = signMessage(unsigned)]
       IN /\ StoreAndNotify(n, tombstoneMessage)
          /\ created' = created \cup {tombstoneMessage}
          /\ publishing' =
                IF node[n] # Null
                THEN publishing \cup {[sdk |-> n, parked |-> FALSE,
                         contentTopic |-> getContentTopic(conversationId),
                         payload |-> encryptMessage(tombstoneMessage,
                                                    KeyOf(n, conversationId))]}
                ELSE publishing
    /\ uuidCounter' = uuidCounter + 1
    /\ UNCHANGED <<identity, node, conversations, encryptionKeys, messageHandlers,
                   subscribedConversations,
                   filterSubscriptions, subscribing, resubscribeTimers, network,
                   delivered, groupCounter, foreignCount, options, localStorage, roundTrip,
                   historyCalls, retryRun>>

(***************************************************************************)
(* retryWithTimeout(fn, maxRetries): outcomes[i] tells how attempt i of    *)
(* fn ends: it resolves, it rejects, or its promise never settles.  The    *)
(* timer of an attempt only calls controller.abort(), and fn never looks   *)
(* at the controller's signal, so an attempt that does not settle keeps    *)
(* the await pending.  The result tells whether the call returned, whether *)
(* fn succeeded, and the number of attempts made.                          *)
(***************************************************************************)
RECURSIVE RetryFrom(_, _, _)
RetryFrom(outcomes, maxRetries, i) ==
    IF ~(i < maxRetries)
    THEN [returned |-> TRUE, ok |-> FALSE, attempts |-> i]
    ELSE IF outcomes[i + 1] = "resolves"
    THEN [returned |-> TRUE, ok |-> TRUE, attempts |-> i + 1]
    ELSE IF outcomes[i + 1] = "hangs"
    THEN [returned |-> FALSE, ok |-> FALSE, attempts |-> i + 1]
    ELSE RetryFrom(outcomes, maxRetries, i + 1)

retryWithTimeout(outcomes, maxRetries) == RetryFrom(outcomes, maxRetries, 0)

(***************************************************************************)
(* The loop of retryWithTimeout, one iteration per step.  calls lists how  *)
(* each invocation of fn ended: "resolves", "hangs" (its promise never     *)
(* settles) or the name of the error it rejected with.                     *)
(***************************************************************************)
FnErrors == {"LightPush send failed", "AbortError"}
GenericError == "Operation failed after multiple attempts"

\* the inner catch, lines 317-323
Rethrown(error) == IF error = "AbortError" THEN "Operation timed out" ELSE error

\* a loop that runs while i <= maxRetries
retryStepOneMore(run, outcome) ==
    IF ~(run.i <= run.maxRetries)
    THEN [run EXCEPT !.pc = "threw",
                     !.thrown = IF run.lastError # Null THEN run.lastError
                                ELSE GenericError]
    ELSE IF outcome = "resolves"
    THEN [run EXCEPT !.pc = "returned", !.calls = Append(@, outcome)]
    ELSE IF outcome = "hangs"
    THEN [run EXCEPT !.pc = "parked", !.calls = Append(@, outcome)]
    ELSE [run EXCEPT !.i = @ + 1, !.calls = Append(@, outcome),
                     !.lastError = Rethrown(outcome)]

\* one pass through `for (let i = 0; i < maxRetries; i++)`, or the throw
\* after the loop
retryStep(run, outcome) ==
    IF ~(run.i < run.maxRetries)
    THEN [run EXCEPT !.pc = "threw",
                     !.thrown = IF run.lastError # Null THEN run.lastError
                                ELSE GenericError]
    ELSE IF outcome = "resolves"
    THEN [run EXCEPT !.pc = "returned", !.calls = Append(@, outcome)]
    ELSE IF outcome = "hangs"
    THEN [run EXCEPT !.pc = "parked", !.calls = Append(@, outcome)]
    ELSE [run EXCEPT !.i = @ + 1, !.calls = Append(@, outcome),
                     !.lastError = Rethrown(outcome)]

RetryStep(outcome) ==
    /\ retryRun.pc = "loop"
    /\ retryRun' = retryStep(retryRun, outcome)
    /\ UNCHANGED <<identity, node, conversations, encryptionKeys, store,
                   processedMessageIds, messageHandlers, subscribedConversations,
                   filterSubscriptions, subscribing, resubscribeTimers,
                   publishing, handlerLog, network, delivered, created,
                   uuidCounter, groupCounter, foreignCount, options,
                   localStorage, roundTrip, historyCalls>>

\* a publish whose failure removes the message from the local log again
PublishRollingBack(call, outcomes) ==
    /\ call \in publishing
    /\ ~call.parked
    /\ LET result == retryWithTimeout(
                        [i \in 1..PublishRetries |->
                            IF node[call.sdk] = Null THEN "rejects"
                            ELSE outcomes[i]],
                        PublishRetries)
           message == call.payload.plain
       IN /\ network' = IF result.ok
                        THEN network \cup {[contentTopic |-> call.contentTopic,
                                            payload |-> call.payload]}
                        ELSE network
          /\ store' = IF result.ok \/ message.conversationId \notin DOMAIN store[call.sdk]
                      THEN store
                      ELSE [store EXCEPT ![call.sdk][message.conversationId] =
                              SelectSeq(@, LAMBDA msg : msg.id # message.id)]
          /\ publishing' = publishing \ {call}
    /\ UNCHANGED <<identity, node, conversations, encryptionKeys,
                   processedMessageIds, messageHandlers, subscribedConversations,
                   filterSubscriptions, subscribing,
                   resubscribeTimers, handlerLog, delivered, created,
                   uuidCounter, groupCounter, foreignCount, options, localStorage, roundTrip,
                   historyCalls, retryRun>>

(***************************************************************************)
(* The publish part of sendMessage/revokeMessage: retryWithTimeout around  *)
(* lightPush.send, 5 attempts.  An attempt rejects once close() has set    *)
(* this.node to null.  When retryWithTimeout returns or throws, the call   *)
(* returns the message id; when an attempt never settles the call stays    *)
(* parked at its await.                                                    *)
(***************************************************************************)
Publish(call, outcomes) ==
    /\ call \in publishing
    /\ ~call.parked
    /\ LET result == retryWithTimeout(
                        [i \in 1..PublishRetries |->
                            IF node[call.sdk] = Null THEN "rejects"
                            ELSE outcomes[i]],
                        PublishRetries)
       IN /\ network' = IF result.ok
                        THEN network \cup {[contentTopic |-> call.contentTopic,
                                            payload |-> call.payload]}
                        ELSE network
          /\ publishing' = IF result.returned
                           THEN publishing \ {call}
                           ELSE (publishing \ {call})
                                   \cup {[call EXCEPT !.parked = TRUE]}
    /\ UNCHANGED <<identity, node, conversations, encryptionKeys, store,
                   processedMessageIds, messageHandlers, subscribedConversations,
                   filterSubscriptions, subscribing,
                   resubscribeTimers, handlerLog, delivered, created,
                   uuidCounter, groupCounter, foreignCount, options, localStorage, roundTrip,
                   historyCalls, retryRun>>

(***************************************************************************)
(* The callback given to filter.subscribe (and, identically, to            *)
(* store.queryWithOrderedCallback): trial decryption against every known   *)
(* key in Map order, first success wins.                                   *)
(***************************************************************************)
\* a trial that does not verify the MAC
TrialAcceptsWithoutMAC(entry, payload) ==
    LET decrypted == decryptMessage(payload, entry.key)
    IN /\ decrypted.parses
       /\ verifySignature(decrypted.message)
       /\ decrypted.message.conversationId = entry.id

\* a trial that does not verify the signature
TrialAcceptsUnsigned(entry, payload) ==
    LET decrypted == decryptMessage(payload, entry.key)
    IN /\ decrypted.parses
       /\ verifyMAC(decrypted.message, entry.key)
       /\ decrypted.message.conversationId = entry.id

\* a trial that does not compare the message's conversation id with the
\* id of the key that decrypted it
TrialAcceptsAnyConversation(entry, payload) ==
    LET decrypted == decryptMessage(payload, entry.key)
    IN /\ decrypted.parses
       /\ verifySignature(decrypted.message)
       /\ verifyMAC(decrypted.message, entry.key)

TrialAccepts(entry, payload) ==
    LET decrypted == decryptMessage(payload, entry.key)
    IN /\ decrypted.parses
       /\ verifySignature(decrypted.message)
       /\ verifyMAC(decrypted.message, entry.key)
       /\ decrypted.message.conversationId = entry.id

\* an inbound callback that re-creates the conversation on every receipt
OnWakuMessageRecreating(n, wakuMessage) ==
    LET keys == encryptionKeys[n]
        hits == {i \in 1..Len(keys) : TrialAccepts(keys[i], wakuMessage.payload)}
    IN IF hits = {}
       THEN UNCHANGED <<conversations, store, processedMessageIds, handlerLog>>
       ELSE LET first == CHOOSE i \in hits : \A j \in hits : i <= j
                convId == keys[first].id
                message == decryptMessage(wakuMessage.payload, keys[first].key).message
            IN /\ conversations' =
                     [conversations EXCEPT ![n] =
                        (convId :> [id |-> convId, type |-> "direct",
                                    participants |->
                                       Dedup(<<message.sender, identity[n].peerId>>)])
                        @@ @]
               /\ StoreAndNotify(n, message)

OnWakuMessage(n, wakuMessage) ==
    LET keys == encryptionKeys[n]
        hits == {i \in 1..Len(keys) : TrialAccepts(keys[i], wakuMessage.payload)}
    IN IF hits = {}
       THEN UNCHANGED <<conversations, store, processedMessageIds, handlerLog>>
       ELSE LET first == CHOOSE i \in hits : \A j \in hits : i <= j
                convId == keys[first].id
                message == decryptMessage(wakuMessage.payload, keys[first].key).message
            IN /\ conversations' =
                     IF convId \in DOMAIN conversations[n] THEN conversations
                     ELSE [conversations EXCEPT ![n] =
                             (convId :> [id |-> convId, type |-> "direct",
                                         participants |->
                                            Dedup(<<message.sender, identity[n].peerId>>)])
                             @@ @]
               /\ StoreAndNotify(n, message)

\* the transport hands a payload of the topic to one of the instance's subscriptions
Deliver(n, conversationId, wakuMessage) ==
    /\ node[n] # Null
    /\ conversationId \in subscribedConversations[n]
    /\ wakuMessage \in network
    /\ wakuMessage.contentTopic = getContentTopic(conversationId)
    /\ OnWakuMessage(n, wakuMessage)
    /\ delivered' = delivered \cup {[to |-> n, wakuMessage |-> wakuMessage]}
    /\ UNCHANGED <<identity, node, encryptionKeys, messageHandlers,
                   subscribedConversations,
                   filterSubscriptions, subscribing, resubscribeTimers, publishing, network,
                   created, uuidCounter, groupCounter, foreignCount, options, localStorage, roundTrip,
                   historyCalls, retryRun>>

\* fetchHistory: the store query replays one past payload of the topic
HistoryCallback(n, conversationId, wakuMessage) ==
    /\ identity[n] # NoIdentity
    /\ node[n] # Null
    /\ options[n].storeMessages
    /\ wakuMessage \in network
    /\ wakuMessage.contentTopic = getContentTopic(conversationId)
    /\ OnWakuMessage(n, wakuMessage)
    /\ delivered' = delivered \cup {[to |-> n, wakuMessage |-> wakuMessage]}
    /\ UNCHANGED <<identity, node, encryptionKeys, messageHandlers,
                   subscribedConversations,
                   filterSubscriptions, subscribing, resubscribeTimers, publishing, network,
                   created, uuidCounter, groupCounter, foreignCount, options, localStorage, roundTrip,
                   historyCalls, retryRun>>

(***************************************************************************)
(* fetchHistory(conversationId) as a call.  Without a started node or with *)
(* storeMessages off it returns the local log at once; otherwise the store *)
(* query runs inside retryWithTimeout(fn, 3, 10000): when an attempt       *)
(* resolves, its callbacks replay the stored payloads before the call      *)
(* returns; when every attempt rejects the catch block logs and the local  *)
(* log is returned; an attempt that never settles parks the call.          *)
(***************************************************************************)
HistoryRetries == 3

Queries(n) == node[n] # Null /\ options[n].storeMessages

\* a fetchHistory that returns nothing when no query succeeded
fetchHistoryOutcomeEmpty(n, conversationId, outcomes) ==
    LET result == retryWithTimeout(outcomes, HistoryRetries)
    IN IF Queries(n) /\ ~result.returned
       THEN [pc |-> "parked", conversationId |-> conversationId, messages |-> <<>>]
       ELSE IF Queries(n) /\ result.ok
       THEN [pc |-> "replaying", conversationId |-> conversationId, messages |-> <<>>]
       ELSE [pc |-> "returned", conversationId |-> conversationId, messages |-> <<>>]

fetchHistoryOutcome(n, conversationId, outcomes) ==
    LET result == retryWithTimeout(outcomes, HistoryRetries)
    IN IF Queries(n) /\ ~result.returned
       THEN [pc |-> "parked", conversationId |-> conversationId, messages |-> <<>>]
       ELSE IF Queries(n) /\ result.ok
       THEN [pc |-> "replaying", conversationId |-> conversationId, messages |-> <<>>]
       ELSE [pc |-> "returned", conversationId |-> conversationId,
             messages |-> getMessages(n, conversationId)]

fetchHistoryCall(n, conversationId, outcomes) ==
    /\ identity[n] # NoIdentity
    /\ historyCalls[n].pc \notin {"replaying", "parked"}
    /\ historyCalls' = [historyCalls EXCEPT
                           ![n] = fetchHistoryOutcome(n, conversationId, outcomes)]
    /\ UNCHANGED <<identity, node, conversations, encryptionKeys, store,
                   processedMessageIds, messageHandlers, subscribedConversations,
                   filterSubscriptions, subscribing, resubscribeTimers,
                   publishing, handlerLog, network, delivered, created,
                   uuidCounter, groupCounter, foreignCount, options,
                   localStorage, roundTrip, retryRun>>

\* one callback of the store query of the call in progress
HistoryReplay(n, wakuMessage) ==
    /\ historyCalls[n].pc = "replaying"
    /\ HistoryCallback(n, historyCalls[n].conversationId, wakuMessage)

\* the query has resolved: line 767, return this.getMessages(conversationId)
fetchHistoryReturns(n) ==
    /\ historyCalls[n].pc = "replaying"
    /\ historyCalls' = [historyCalls EXCEPT
                           ![n] = [pc |-> "returned",
                                   conversationId |-> @.conversationId,
                                   messages |-> getMessages(n, @.conversationId)]]
    /\ UNCHANGED <<identity, node, conversations, encryptionKeys, store,
                   processedMessageIds, messageHandlers, subscribedConversations,
                   filterSubscriptions, subscribing, resubscribeTimers,
                   publishing, handlerLog, network, delivered, created,
                   uuidCounter, groupCounter, foreignCount, options,
                   localStorage, roundTrip, retryRun>>

\* a delete that removes the id from the log of every instance
deleteMessageEverywhere(n, conversationId, messageId) ==
    /\ conversationId \in DOMAIN store[n]
    /\ store' = [p \in Peers |->
                    [c \in DOMAIN store[p] |->
                        IF c = conversationId
                        THEN SelectSeq(store[p][c], LAMBDA msg : msg.id # messageId)
                        ELSE store[p][c]]]
    /\ UNCHANGED <<identity, node, conversations, encryptionKeys,
                   processedMessageIds, messageHandlers, subscribedConversations,
                   filterSubscriptions, subscribing,
                   resubscribeTimers, publishing, handlerLog, network,
                   delivered, created, uuidCounter, groupCounter, foreignCount, options, localStorage, roundTrip,
                   historyCalls, retryRun>>

(***************************************************************************)
(* deleteMessageLocally(conversationId, messageId)                         *)
(***************************************************************************)
\* a delete that also forgets that the id was seen
deleteMessageLocallyForgetting(n, conversationId, messageId) ==
    /\ conversationId \in DOMAIN store[n]
    /\ store' = [store EXCEPT ![n][conversationId] =
                    SelectSeq(@, LAMBDA msg : msg.id # messageId)]
    /\ processedMessageIds' = [processedMessageIds EXCEPT ![n] = @ \ {messageId}]
    /\ UNCHANGED <<identity, node, conversations, encryptionKeys,
                   messageHandlers, subscribedConversations,
                   filterSubscriptions, subscribing,
                   resubscribeTimers, publishing, handlerLog, network,
                   delivered, created, uuidCounter, groupCounter, foreignCount,
                   options, localStorage, roundTrip, historyCalls, retryRun>>

deleteMessageLocally(n, conversationId, messageId) ==
    /\ conversationId \in DOMAIN store[n]
    /\ store' = [store EXCEPT ![n][conversationId] =
                    SelectSeq(@, LAMBDA msg : msg.id # messageId)]
    /\ UNCHANGED <<identity, node, conversations, encryptionKeys,
                   processedMessageIds, messageHandlers, subscribedConversations,
                   filterSubscriptions, subscribing,
                   resubscribeTimers, publishing, handlerLog, network,
                   delivered, created, uuidCounter, groupCounter, foreignCount, options, localStorage, roundTrip,
                   historyCalls, retryRun>>

(***************************************************************************)
(* close()                                                                 *)
(***************************************************************************)
\* a close() that keeps the node and rejects when node.stop() throws
closeOutcomeSurfacing(nodeValue, stopFails) ==
    IF nodeValue # Null /\ stopFails
    THEN [node |-> nodeValue, rejected |-> TRUE]
    ELSE [node |-> Null, rejected |-> FALSE]

\* close(), lines 782-793: the value of this.node afterwards and whether
\* the returned promise rejects; stopFails: node.stop() throws
closeOutcome(nodeValue, stopFails) ==
    IF nodeValue # Null
    THEN [node |-> Null, rejected |-> FALSE]
    ELSE [node |-> nodeValue, rejected |-> FALSE]

close(n) ==
    /\ node[n] # Null
    /\ \E stopFails \in BOOLEAN :
          node' = [node EXCEPT ![n] = closeOutcome(node[n], stopFails).node]
    /\ UNCHANGED <<identity, conversations, encryptionKeys, store,
                   processedMessageIds, messageHandlers, subscribedConversations,
                   filterSubscriptions, subscribing,
                   resubscribeTimers, publishing, handlerLog, network,
                   delivered, created, uuidCounter, groupCounter, foreignCount, options, localStorage, roundTrip,
                   historyCalls, retryRun>>

(***************************************************************************)
(* The transport is an open network: a party other than the three          *)
(* instances publishes a payload on the content topic.  The payload is one *)
(* the receive pipeline of instance `target` accepts: encrypted under the  *)
(* (publicly derivable) key of one of its conversations, MAC'd, and signed *)
(* over the serialization verifySignature recomputes.                      *)
(***************************************************************************)
ForeignId == "x1"

ForeignMessage(entry, sender, id, type, tombstoneFor) ==
    LET unsigned == [id |-> id,
                     conversationId |-> entry.id,
                     sender |-> sender,
                     content |-> IF type = "text" THEN "hi" ELSE "",
                     type |-> type,
                     tombstoneFor |-> tombstoneFor,
                     signature |-> NoHash,
                     mac |-> NoHash]
        withMac == [unsigned EXCEPT !.mac = generateMAC(unsigned, entry.key)]
    IN [withMac EXCEPT !.signature = signMessage(withMac)]

ForeignPublish(target, i, sender, id, type, tombstoneFor) ==
    /\ i \in 1..Len(encryptionKeys[target])
    /\ type = "text" <=> tombstoneFor = Undefined
    /\ LET entry == encryptionKeys[target][i]
           message == ForeignMessage(entry, sender, id, type, tombstoneFor)
       IN network' = network \cup
             {[contentTopic |-> getContentTopic(entry.id),
               payload |-> encryptMessage(message, entry.key)]}
    /\ foreignCount' = foreignCount + 1
    /\ UNCHANGED <<identity, node, conversations, encryptionKeys, store,
                   processedMessageIds, messageHandlers, subscribedConversations,
                   filterSubscriptions, subscribing,
                   resubscribeTimers, publishing, handlerLog, delivered,
                   created, uuidCounter, groupCounter, options, localStorage, roundTrip,
                   historyCalls, retryRun>>

(***************************************************************************)
(* The outside party publishes a payload with a defect, encrypted under    *)
(* the key of one of the target's conversations: without signature,        *)
(* without MAC, with a field changed after signing, or naming a            *)
(* conversation other than the one whose key it is encrypted and MAC'd     *)
(* with.                                                                   *)
(***************************************************************************)
Defects == {"noSignature", "noMAC", "tamperedField", "foreignConversation"}

OtherConversationId == "X_Y"

DefectiveMessage(entry, sender, id, defect) ==
    LET unsigned == [id |-> id,
                     conversationId |-> IF defect = "foreignConversation"
                                        THEN OtherConversationId ELSE entry.id,
                     sender |-> sender,
                     content |-> "hi",
                     type |-> "text",
                     tombstoneFor |-> Undefined,
                     signature |-> NoHash,
                     mac |-> NoHash]
        withMac == IF defect = "noMAC" THEN unsigned
                   ELSE [unsigned EXCEPT !.mac = generateMAC(unsigned, entry.key)]
        signed == IF defect = "noSignature" THEN withMac
                  ELSE [withMac EXCEPT !.signature = signMessage(withMac)]
    IN IF defect = "tamperedField"
       THEN [signed EXCEPT !.content = "tampered"]
       ELSE signed

DefectivePublish(target, i, sender, id, defect) ==
    /\ i \in 1..Len(encryptionKeys[target])
    /\ LET entry == encryptionKeys[target][i]
           message == DefectiveMessage(entry, sender, id, defect)
       IN network' = network \cup
             {[contentTopic |-> getContentTopic(entry.id),
               payload |-> encryptMessage(message, entry.key)]}
    /\ foreignCount' = foreignCount + 1
    /\ UNCHANGED <<identity, node, conversations, encryptionKeys, store,
                   processedMessageIds, messageHandlers, subscribedConversations,
                   filterSubscriptions, subscribing,
                   resubscribeTimers, publishing, handlerLog, delivered,
                   created, uuidCounter, groupCounter, options, localStorage,
                   roundTrip, historyCalls, retryRun>>

(***************************************************************************)
(* Specification.  The inputs of the operations are drawn from the peers   *)
(* in P; the bounds of the model are guards here, not part of the          *)
(* operations.                                                             *)
(***************************************************************************)
RECURSIVE SumLen(_, _)
SumLen(f, D) ==
    IF D = {} THEN 0
    ELSE LET d == CHOOSE x \in D : TRUE IN Len(f[d]) + SumLen(f, D \ {d})

HandlerCount(n) == SumLen(messageHandlers[n], DOMAIN messageHandlers[n])

RECURSIVE SumOver(_, _)
SumOver(f, D) ==
    IF D = {} THEN 0
    ELSE LET d == CHOOSE x \in D : TRUE IN f[d] + SumOver(f, D \ {d})

SumLenCounts(f) == SumOver(f, DOMAIN f)

KnownConversationIds ==
    UNION {DOMAIN conversations[n] : n \in Peers}

MessageIds == {MessageId(i) : i \in 1..uuidCounter}

\* participant lists a caller passes: the other peer, duplicated, with the
\* caller itself, and two others in either order
ParticipantLists(P, n) ==
    {<<p>> : p \in P \ {n}}
      \cup {<<p, p>> : p \in P \ {n}}
      \cup {<<p, n>> : p \in P \ {n}}
      \cup {<<p, q>> : p, q \in P \ {n}}

\* lightPush.send resolves at the first attempt, at the last one, never,
\* or its promise never settles
AttemptOutcomes ==
    {[i \in 1..PublishRetries |-> "resolves"],
     [i \in 1..PublishRetries |->
         IF i = PublishRetries THEN "resolves" ELSE "rejects"],
     [i \in 1..PublishRetries |-> "rejects"],
     [i \in 1..PublishRetries |-> IF i = 1 THEN "hangs" ELSE "rejects"]}

TimersPending == UNION {resubscribeTimers[n] \X {n} : n \in Peers}

\* filter.subscribe resolves, or rejects while fewer than MaxTimers
\* re-subscribe timers are pending
SubscribeOutcomes ==
    IF Cardinality(TimersPending) < MaxTimers THEN BOOLEAN ELSE {TRUE}

(***************************************************************************)
(* Conversations: from construction, the three instances run init() and    *)
(* create direct and group conversations with one another.                 *)
(***************************************************************************)
NextConversations ==
    \/ \E n \in Peers : init(n, NoIdentity)
    \/ \E n \in Peers, type \in {"direct", "group"} :
          \E participants \in ParticipantLists(Peers, n) :
             /\ type = "group" => groupCounter < MaxGroups
             /\ identity[n] # NoIdentity
             /\ \/ Cardinality(DOMAIN conversations[n]) < MaxConvs
                \/ ConversationIdOn(n, participants, type) \in DOMAIN conversations[n]
             /\ \E accepted \in SubscribeOutcomes :
                  createConversation(n, participants, type, accepted)
    \/ \E n \in Peers, c \in KnownConversationIds, accepted \in BOOLEAN :
          Resubscribe(n, c, accepted)

SpecConversations == Init /\ [][NextConversations]_vars

(***************************************************************************)
(* Messaging between the two instances of Pair, from the state in which    *)
(* both have run init() with a started node and the Store protocol on     *)
(* (new ChatSDK({ storeMessages: true })); close() takes a node offline.   *)
(***************************************************************************)
StartedWith(P, storeMessages) ==
    /\ identity = [n \in Peers |-> IF n \in P THEN UserIdentity(n) ELSE NoIdentity]
    /\ node = [n \in Peers |-> IF n \in P THEN "node" ELSE Null]
    /\ conversations = [n \in Peers |-> <<>>]
    /\ encryptionKeys = [n \in Peers |-> <<>>]
    /\ store = [n \in Peers |-> <<>>]
    /\ processedMessageIds = [n \in Peers |-> {}]
    /\ messageHandlers = [n \in Peers |-> <<>>]
    /\ subscribedConversations = [n \in Peers |-> {}]
    /\ filterSubscriptions = [n \in Peers |-> <<>>]
    /\ subscribing = [n \in Peers |-> <<>>]
    /\ resubscribeTimers = [n \in Peers |-> {}]
    /\ publishing = {}
    /\ handlerLog = [n \in Peers |-> <<>>]
    /\ network = {}
    /\ delivered = {}
    /\ created = {}
    /\ uuidCounter = 0
    /\ groupCounter = 0
    /\ foreignCount = 0
    /\ options = [n \in Peers |-> [storeMessages |-> storeMessages]]
    /\ localStorage = [n \in Peers |->
                          IF n \in P THEN JSONstringify(UserIdentity(n)) ELSE NoItem]
    /\ roundTrip = NoRoundTrip
    /\ historyCalls = [n \in Peers |-> NoHistoryCall]
    /\ retryRun = NoRetryRun

Started == StartedWith(Pair, TRUE)

Next ==
    \/ \E n \in Pair : \E participants \in ParticipantLists(Pair, n) :
          /\ Cardinality(DOMAIN conversations[n]) < MaxConvs
          /\ createConversation(n, participants, "direct", TRUE)
    \/ \E n \in Pair, c \in KnownConversationIds, h \in Handlers :
          /\ HandlerCount(n) < MaxHandlers
          /\ subscribe(n, c, h, TRUE)
    \/ \E n \in Pair, c \in KnownConversationIds, content \in Contents :
          /\ uuidCounter < MaxMsgs
          /\ Cardinality(publishing) < MaxInflight
          /\ sendMessage(n, c, content)
    \/ \E n \in Pair, c \in KnownConversationIds, m \in MessageIds \cup {ForeignId} :
          /\ uuidCounter < MaxMsgs
          /\ Cardinality(publishing) < MaxInflight
          /\ revokeMessage(n, c, m)
    \/ \E call \in publishing, outcomes \in AttemptOutcomes : Publish(call, outcomes)
    \/ \E n \in Pair, c \in KnownConversationIds, w \in network :
          /\ Len(handlerLog[n]) < MaxLog
          /\ Deliver(n, c, w)
    \/ \E n \in Pair, c \in KnownConversationIds, w \in network :
          /\ Len(handlerLog[n]) < MaxLog
          /\ HistoryCallback(n, c, w)
    \/ \E n \in Pair, c \in KnownConversationIds, m \in MessageIds \cup {ForeignId} :
          deleteMessageLocally(n, c, m)
    \/ \E n \in Pair : close(n)

Spec == Started /\ [][Next]_vars

(***************************************************************************)
(* The same, on the open network: an outside party publishes payloads in   *)
(* the name of the other instance.                                         *)
(***************************************************************************)
NextOpen ==
    \/ \E n \in Pair : \E participants \in ParticipantLists(Pair, n) :
          /\ Cardinality(DOMAIN conversations[n]) < MaxConvs
          /\ createConversation(n, participants, "direct", TRUE)
    \/ \E n \in Pair, c \in KnownConversationIds, h \in Handlers :
          /\ HandlerCount(n) < MaxHandlers
          /\ subscribe(n, c, h, TRUE)
    \/ \E n \in Pair, c \in KnownConversationIds, content \in Contents :
          /\ uuidCounter < MaxOpenMsgs
          /\ Cardinality(publishing) < MaxInflight
          /\ sendMessage(n, c, content)
    \/ \E n \in Pair, c \in KnownConversationIds, m \in MessageIds \cup {ForeignId} :
          /\ uuidCounter < MaxOpenMsgs
          /\ Cardinality(publishing) < MaxInflight
          /\ revokeMessage(n, c, m)
    \/ \E call \in publishing, outcomes \in AttemptOutcomes : Publish(call, outcomes)
    \/ \E n \in Pair, c \in KnownConversationIds, w \in network :
          /\ Len(handlerLog[n]) < MaxLog
          /\ Deliver(n, c, w)
    \/ \E n \in Pair, c \in KnownConversationIds, w \in network :
          /\ Len(handlerLog[n]) < MaxLog
          /\ HistoryCallback(n, c, w)
    \/ \E n \in Pair, c \in KnownConversationIds, m \in MessageIds \cup {ForeignId} :
          deleteMessageLocally(n, c, m)
    \/ \E n \in Pair : close(n)
    \/ \E target \in Pair, sender \in Pair, i \in 1..MaxConvs,
          type \in {"text", "tombstone"}, t \in MessageIds \cup {Undefined} :
          \E id \in MessageIds \cup {ForeignId} :
             /\ foreignCount < MaxForeign
             /\ sender # target
             /\ ForeignPublish(target, i, sender, id, type, t)

SpecOpen == Started /\ [][NextOpen]_vars

(***************************************************************************)
(* Group fan-out: the three instances, started as the test starts them     *)
(* (new ChatSDK(), init()), each create a group with the other two,        *)
(* register handlers, and send.                                            *)
(***************************************************************************)
StartedAll == StartedWith(Peers, FALSE)

NextFanout ==
    \/ \E n \in Peers : \E p, q \in Peers \ {n} :
          /\ p # q
          /\ groupCounter < MaxFanoutGroups
          /\ Cardinality(DOMAIN conversations[n]) < MaxConvs
          /\ createConversation(n, <<p, q>>, "group", TRUE)
    \/ \E n \in Peers, c \in KnownConversationIds, h \in Handlers :
          /\ HandlerCount(n) < MaxHandlers
          /\ subscribe(n, c, h, TRUE)
    \/ \E n \in Peers, c \in KnownConversationIds, content \in Contents :
          /\ uuidCounter < MaxFanoutMsgs
          /\ sendMessage(n, c, content)
    \/ \E call \in publishing, outcomes \in AttemptOutcomes : Publish(call, outcomes)
    \/ \E n \in Peers, c \in KnownConversationIds, w \in network :
          /\ Len(handlerLog[n]) < MaxLog
          /\ Deliver(n, c, w)

SpecFanout == StartedAll /\ [][NextFanout]_vars

(***************************************************************************)
(* Vocabulary of the properties.                                           *)
(***************************************************************************)
\* the payload the instance that built `message` hands to lightPush.send
PayloadOf(message) ==
    [contentTopic |-> getContentTopic(message.conversationId),
     payload |-> encryptMessage(message,
                                KeyOf(message.sender, message.conversationId))]

\* this step is a transport callback at instance n for the payload of message
DeliveredTo(n, message) ==
    [to |-> n, wakuMessage |-> PayloadOf(message)] \in delivered' \ delivered

Stored(n) ==
    UNION {{store[n][c][i] : i \in 1..Len(store[n][c])} : c \in DOMAIN store[n]}

Notified(n) == {handlerLog[n][i].message : i \in 1..Len(handlerLog[n])}

VisibleIds(n, conversationId) ==
    LET visible == VisibleMessages(n, conversationId)
    IN {visible[i].id : i \in 1..Len(visible)}

\* a and b have both created the direct conversation with the other
DirectBetween(a, b, conversationId) ==
    /\ a # b
    /\ conversationId \in DOMAIN conversations[a]
    /\ conversationId \in DOMAIN conversations[b]
    /\ conversations[a][conversationId].type = "direct"
    /\ conversations[b][conversationId].type = "direct"
    /\ conversations[a][conversationId].participants = AllParticipants(b, <<a>>)
    /\ conversations[b][conversationId].participants = AllParticipants(a, <<b>>)

(***************************************************************************)
(* C2 -- direct chat delivery.  A and B have each created the direct       *)
(* conversation with the other and B has subscribed a handler; A's         *)
(* sendMessage built M1 and published it.  Whenever the transport then     *)
(* delivers the payload of M1 to B, B's handler has received M1 (same id,  *)
(* content and sender).                                                    *)
(***************************************************************************)
C2_DirectChatDelivery ==
    [][\A a \in Peers, b \in Peers, m \in created :
         ( /\ m.type = "text"
           /\ m.sender = a
           /\ DirectBetween(a, b, m.conversationId)
           /\ HandlersOf(b, m.conversationId) # <<>>
           /\ m.conversationId \in subscribedConversations[b]
           /\ DeliveredTo(b, m) )
         => \E i \in 1..Len(handlerLog'[b]) :
               /\ handlerLog'[b][i].message.id = m.id
               /\ handlerLog'[b][i].message.content = m.content
               /\ handlerLog'[b][i].message.sender = a]_vars

(***************************************************************************)
(* C1 -- revoke propagation.  A and B have each created the direct         *)
(* conversation and B has subscribed a handler; A sent M1, the transport   *)
(* has handed M1's payload to B, and A's revokeMessage built the tombstone *)
(* T for M1.  Whenever the transport then delivers the payload of T to B,  *)
(* B's store holds a tombstone for M1, B's handler has been invoked with   *)
(* it, and B's visible list does not contain M1.                           *)
(***************************************************************************)
C1_RevokePropagation ==
    [][\A a \in Peers, b \in Peers, m \in created, t \in created :
         ( /\ m.type = "text"
           /\ m.sender = a
           /\ DirectBetween(a, b, m.conversationId)
           /\ HandlersOf(b, m.conversationId) # <<>>
           /\ m.conversationId \in subscribedConversations[b]
           /\ [to |-> b, wakuMessage |-> PayloadOf(m)] \in delivered
           /\ t.type = "tombstone"
           /\ t.sender = a
           /\ t.conversationId = m.conversationId
           /\ t.tombstoneFor = m.id
           /\ DeliveredTo(b, t) )
         => /\ \E s \in Stored(b)' :
                  s.type = "tombstone" /\ s.tombstoneFor = m.id
            /\ \E i \in 1..Len(handlerLog'[b]) :
                  /\ handlerLog'[b][i].message.type = "tombstone"
                  /\ handlerLog'[b][i].message.tombstoneFor = m.id
            /\ m.id \notin VisibleIds(b, m.conversationId)']_vars

(***************************************************************************)
(* C3 -- a tombstone hides its target.  Once revokeMessage(cid, mid) has   *)
(* succeeded on a node (or the node has received that tombstone), the      *)
(* node's visible list for cid contains no message with id mid and no      *)
(* tombstone, whatever operations follow (further sends, duplicate         *)
(* deliveries, deleteMessageLocally of any id).                            *)
(***************************************************************************)
C3_TombstoneHidesTarget ==
    \A n \in Peers, t \in created :
       ( /\ t.type = "tombstone"
         /\ t.sender = n \/ t \in Notified(n) \/ t \in Stored(n) )
       => LET visible == VisibleMessages(n, t.conversationId)
          IN \A i \in 1..Len(visible) :
                visible[i].id # t.tombstoneFor /\ visible[i].type # "tombstone"

(***************************************************************************)
(* C4 -- only the original sender may revoke.  No step is a successful     *)
(* revokeMessage(cid, mid) by an identity other than the sender of mid: a  *)
(* call by anyone else produces no tombstone and changes nothing.          *)
(***************************************************************************)
C4_UnauthorizedRevokeFails ==
    [][\A n \in Peers, m \in created :
          (m.type = "text" /\ m.sender # n)
          => ~ \E c \in KnownConversationIds : revokeMessage(n, c, m.id)]_vars

(***************************************************************************)
(* C5 -- tombstone authorship.  Every tombstone in any node's store has    *)
(* the sender of the text message it targets, also when the node that      *)
(* revoked did not hold the target.                                        *)
(***************************************************************************)
C5_TombstoneAuthorship ==
    \A n \in Peers : \A t \in Stored(n), m \in created :
       (t.type = "tombstone" /\ m.type = "text" /\ m.id = t.tombstoneFor)
       => t.sender = m.sender

(***************************************************************************)
(* C6 -- no duplicate ids.  No two messages in a node's per-conversation   *)
(* store share an id, whatever is delivered, replayed or sent.             *)
(***************************************************************************)
C6_NoDuplicateIds ==
    \A n \in Peers : \A c \in DOMAIN store[n] :
       \A i, j \in 1..Len(store[n][c]) :
          store[n][c][i].id = store[n][c][j].id => i = j

\* a handler of n has seen one id twice (a duplicate arrived) and the log
\* of the conversation holds that id
C6_DuplicateArrived ==
    \E n \in Peers : \E i, j \in 1..Len(handlerLog[n]) :
       /\ i < j
       /\ handlerLog[n][i].message.id = handlerLog[n][j].message.id
       /\ \E s \in Stored(n) : s.id = handlerLog[n][i].message.id

(***************************************************************************)
(* C7 -- dedup idempotence.  Appending a message whose id the node has     *)
(* already seen leaves store and processed ids as they are; this holds for *)
(* every message built by an instance and for every copy reconstructed     *)
(* from a payload on the network, the node's own echo included.            *)
(***************************************************************************)
ReconstructedMessages ==
    {decryptMessage(w.payload, e.key).message :
        w \in network,
        e \in UNION {{encryptionKeys[n][i] : i \in 1..Len(encryptionKeys[n])} :
                        n \in Peers}}

C7_DedupIdempotence ==
    \A n \in Peers : \A m \in created \cup ReconstructedMessages :
       m.id \in processedMessageIds[n]
       => LET st == [store |-> store[n], processed |-> processedMessageIds[n]]
          IN storeMessage(st, m) = st

\* n sent a message and removed it from its log, and the transport has
\* handed n the payload of that message
C7_EchoAfterDelete ==
    \E n \in Peers, m \in created :
       /\ m.sender = n
       /\ m.id \in processedMessageIds[n]
       /\ [to |-> n, wakuMessage |-> PayloadOf(m)] \in delivered
       /\ m \notin Stored(n)

(***************************************************************************)
(* C8 -- no handler re-invocation.  A handler is not invoked again for a   *)
(* message id the node has already stored: per handler and message id      *)
(* there is at most one invocation, also after a duplicate delivery.       *)
(***************************************************************************)
C8_HandlerOncePerId ==
    \A n \in Peers : \A i, j \in 1..Len(handlerLog[n]) :
       ( /\ handlerLog[n][i].handler = handlerLog[n][j].handler
         /\ handlerLog[n][i].message.id = handlerLog[n][j].message.id )
       => i = j

(***************************************************************************)
(* C9 -- group fan-out.  A created a group with B and C, B and C each      *)
(* created a group with the other two, and both subscribed a handler to    *)
(* A's conversation id; A sent M.  Whenever the transport delivers the     *)
(* payload of M to B or to C, that node's handler has received M.          *)
(***************************************************************************)
GroupOfAll(n, conversationId) ==
    /\ conversationId \in DOMAIN conversations[n]
    /\ conversations[n][conversationId].type = "group"
    /\ conversations[n][conversationId].participants = PeerOrder

C9_GroupFanOut ==
    [][\A a \in Peers, r \in Peers, m \in created :
         ( /\ r # a
           /\ m.type = "text"
           /\ m.sender = a
           /\ GroupOfAll(a, m.conversationId)
           /\ \A p \in Peers \ {a} :
                 /\ \E c \in DOMAIN conversations[p] : GroupOfAll(p, c)
                 /\ HandlersOf(p, m.conversationId) # <<>>
                 /\ m.conversationId \in subscribedConversations[p]
           /\ DeliveredTo(r, m) )
         => \E i \in 1..Len(handlerLog'[r]) :
               /\ handlerLog'[r][i].message.id = m.id
               /\ handlerLog'[r][i].message.content = m.content]_vars

(***************************************************************************)
(* C10 -- determinism of direct conversation ids.  For two initialised     *)
(* peers a and b, createConversation(.., 'direct') computes one and the    *)
(* same id on both sides, whatever the order or duplication of the         *)
(* participant list passed, and every direct conversation a holds with b   *)
(* has that id.                                                            *)
(***************************************************************************)
\* participant lists of a caller n that name the peer p and nobody else
DirectLists(n, p) == {<<p>>, <<p, p>>, <<p, n>>, <<n, p>>, <<p, n, p>>}

\* the id createConversation(participants, 'direct') computes on n
DirectIdOn(n, participants) == ConversationIdOn(n, participants, "direct")

C10_DirectIdDeterminism ==
    \A a \in Peers, b \in Peers :
       (a # b /\ identity[a] # NoIdentity /\ identity[b] # NoIdentity)
       => \A la \in DirectLists(a, b), lb \in DirectLists(b, a) :
             /\ DirectIdOn(a, la) = DirectIdOn(b, lb)
             /\ \A c \in DOMAIN conversations[a] :
                   ( /\ conversations[a][c].type = "direct"
                     /\ {a, b} = {conversations[a][c].participants[i] :
                                    i \in 1..Len(conversations[a][c].participants)} )
                   => c = DirectIdOn(b, lb)

\* both sides hold the direct conversation under one id
C10_BothSidesCreated ==
    \E a \in Peers, b \in Peers :
       /\ a # b
       /\ \E c \in DOMAIN conversations[a] \cap DOMAIN conversations[b] :
             /\ conversations[a][c].type = "direct"
             /\ conversations[b][c].type = "direct"
             /\ conversations[a][c].participants = AllParticipants(a, <<b>>)

(***************************************************************************)
(* C11 -- key agreement without handshake.  For every conversation id, the *)
(* key derived on one participant's node equals the key derived on every   *)
(* other participant's node for that id.                                   *)
(***************************************************************************)
C11_KeyAgreement ==
    \A a \in Peers, b \in Peers :
       \A c \in DOMAIN conversations[a] \cap DOMAIN conversations[b] :
          (KeyOf(a, c) # Null /\ KeyOf(b, c) # Null)
          => KeyOf(a, c) = KeyOf(b, c)

(***************************************************************************)
(* C12 -- the receive pipeline accepts what sendMessage builds.  For every *)
(* text message built by sendMessage, the unmodified payload passes        *)
(* decrypt, parse, verifySignature, verifyMAC and the conversation-id      *)
(* match under the key of the conversation it was encrypted with.          *)
(***************************************************************************)
C12_PipelineAcceptsSent ==
    \A m \in created :
       m.type = "text"
       => TrialAccepts([id |-> m.conversationId,
                        key |-> KeyOf(m.sender, m.conversationId)],
                       PayloadOf(m).payload)

(***************************************************************************)
(* C13 -- local-first durability.  The step in which sendMessage or        *)
(* revokeMessage builds a message appends it to the caller's log and       *)
(* invokes the handlers registered for the conversation, and the payload   *)
(* is not yet on the network; the later step in which the publish ends,    *)
(* successfully or after all retries failed, returns the call and leaves   *)
(* log, processed ids and handler invocations as they were.                *)
(***************************************************************************)
C13_LocalFirst ==
    [][/\ \A m \in created' \ created :
             /\ m \in Stored(m.sender)'
             /\ m.id \in processedMessageIds'[m.sender]
             /\ \A k \in 1..Len(HandlersOf(m.sender, m.conversationId)) :
                   \E i \in 1..Len(handlerLog'[m.sender]) :
                      /\ handlerLog'[m.sender][i].message = m
                      /\ handlerLog'[m.sender][i].handler =
                            HandlersOf(m.sender, m.conversationId)[k]
             /\ PayloadOf(m)' \notin network'
       /\ (created' = created /\ publishing' # publishing)
             => /\ store' = store
                /\ processedMessageIds' = processedMessageIds
                /\ handlerLog' = handlerLog]_vars

\* a publish has failed on every retry: the message is in the sender's log,
\* its call has returned, and its payload is not on the network
C13_PublishFailed ==
    \E m \in created :
       /\ node[m.sender] # Null
       /\ m \in Stored(m.sender)
       /\ PayloadOf(m) \notin network
       /\ \A call \in publishing : call.payload # PayloadOf(m).payload

(***************************************************************************)
(* Publishing under a fair event loop: the two instances create the        *)
(* conversation, send and revoke; a call that is inside retryWithTimeout   *)
(* and whose attempts settle is resumed by the event loop.                 *)
(***************************************************************************)
PublishStep ==
    \E call \in publishing, outcomes \in AttemptOutcomes : Publish(call, outcomes)

NextPublish ==
    \/ \E n \in Pair : \E participants \in ParticipantLists(Pair, n) :
          /\ Cardinality(DOMAIN conversations[n]) < MaxConvs
          /\ createConversation(n, participants, "direct", TRUE)
    \/ \E n \in Pair, c \in KnownConversationIds, content \in Contents :
          /\ uuidCounter < MaxMsgs
          /\ Cardinality(publishing) < MaxInflight
          /\ sendMessage(n, c, content)
    \/ \E n \in Pair, c \in KnownConversationIds, m \in MessageIds :
          /\ uuidCounter < MaxMsgs
          /\ Cardinality(publishing) < MaxInflight
          /\ revokeMessage(n, c, m)
    \/ PublishStep

SpecPublish == Started /\ [][NextPublish]_vars /\ WF_vars(PublishStep)

(***************************************************************************)
(* C14 -- sendMessage and revokeMessage never block indefinitely.  A call  *)
(* that has entered the publish retry loop returns, also when the          *)
(* transport's publish call never completes: the per-attempt timeout ends  *)
(* the attempt and the call returns after the bounded number of retries.   *)
(***************************************************************************)
C14_CallsReturn == (publishing # {}) ~> (publishing = {})

(***************************************************************************)
(* C15 -- local delete is local.  deleteMessageLocally(cid, mid) on node n *)
(* removes mid from n's log for cid and nothing else: n's other messages   *)
(* and conversations, every other node's store and visible list, the       *)
(* calls being published and the network stay as they are.                 *)
(***************************************************************************)
C15_LocalDeleteIsLocal ==
    [][\A n \in Peers, c \in KnownConversationIds, mid \in MessageIds \cup {ForeignId} :
          deleteMessageLocally(n, c, mid)
          => /\ \A p \in Peers \ {n} :
                   /\ store'[p] = store[p]
                   /\ VisibleIds(p, c)' = VisibleIds(p, c)
             /\ DOMAIN store'[n] = DOMAIN store[n]
             /\ \A c2 \in DOMAIN store[n] \ {c} : store'[n][c2] = store[n][c2]
             /\ store'[n][c] = SelectSeq(store[n][c], LAMBDA msg : msg.id # mid)
             /\ network' = network
             /\ publishing' = publishing
             /\ processedMessageIds' = processedMessageIds]_vars

\* n has deleted an id locally that a second node still shows
C15_DeletedHereShownThere ==
    \E n \in Peers, p \in Peers, c \in KnownConversationIds :
       \E mid \in processedMessageIds[n] :
          /\ p # n
          /\ c \in DOMAIN store[n]
          /\ \A i \in 1..Len(store[n][c]) : store[n][c][i].id # mid
          /\ mid \in VisibleIds(p, c)

(***************************************************************************)
(* C16 -- the dedup marker survives a local delete.  Once mid has been     *)
(* deleted locally on a node (its id is marked processed and its log does  *)
(* not hold it), a later delivery of a message with id mid, live or by     *)
(* history replay, is silently dropped: the log does not regain mid and no *)
(* handler is invoked with it.                                             *)
(***************************************************************************)
\* the messages the receive pipeline of n accepts from the payload w
AcceptedFrom(n, w) ==
    {decryptMessage(w.payload, encryptionKeys[n][i].key).message :
        i \in {j \in 1..Len(encryptionKeys[n]) :
                  TrialAccepts(encryptionKeys[n][j], w.payload)}}

StoredIds(n) == {s.id : s \in Stored(n)}

C16_DeletedStaysDropped ==
    [][\A n \in Peers, c \in KnownConversationIds, w \in network :
          ( /\ Deliver(n, c, w) \/ HistoryCallback(n, c, w)
            /\ \E m \in AcceptedFrom(n, w) :
                  m.id \in processedMessageIds[n] \ StoredIds(n) )
          => /\ store'[n] = store[n]
             /\ handlerLog'[n] = handlerLog[n]]_vars

(***************************************************************************)
(* Overlapping subscriptions: the two instances create the direct          *)
(* conversation and register handlers without awaiting each call before    *)
(* the next; pending filter.subscribe calls settle in any order, and a     *)
(* rejected one is retried by its timer.                                   *)
(***************************************************************************)
SubscribingCount ==
    LET total(n) == SumLenCounts(subscribing[n])
    IN total("A") + total("B") + total("C")

NextSubscribe ==
    \/ \E n \in Pair : \E participants \in ParticipantLists(Pair, n) :
          /\ \/ Cardinality(DOMAIN conversations[n]) < MaxConvs
             \/ ConversationIdOn(n, participants, "direct") \in DOMAIN conversations[n]
          /\ SubscribingCount < MaxSubscribing
          /\ createConversationCall(n, participants, "direct")
    \/ \E n \in Pair, c \in KnownConversationIds, h \in Handlers :
          /\ HandlerCount(n) < MaxHandlers
          /\ SubscribingCount < MaxSubscribing
          /\ subscribeCall(n, c, h)
    \/ \E n \in Pair, c \in KnownConversationIds, accepted \in SubscribeOutcomes :
          SubscribeSettles(n, c, accepted)
    \/ \E n \in Pair, c \in KnownConversationIds :
          /\ SubscribingCount < MaxSubscribing
          /\ ResubscribeCall(n, c)

SpecSubscribe == Started /\ [][NextSubscribe]_vars

(***************************************************************************)
(* C17 -- subscription dedup.  For each conversation id a node holds at    *)
(* most one transport subscription, however many handlers are registered   *)
(* and however createConversation, subscribe and the delayed re-subscribe  *)
(* for that id interleave, overlapping calls included.                     *)
(***************************************************************************)
C17_OneSubscriptionPerConversation ==
    \A n \in Peers : \A c \in DOMAIN filterSubscriptions[n] :
       filterSubscriptions[n][c] <= 1

(***************************************************************************)
(* C18 -- one topic per conversation.  The content topic is a function of  *)
(* the conversation id alone, so every participant computes the same topic *)
(* for a conversation, and two different conversation ids never have the   *)
(* same topic.                                                             *)
(***************************************************************************)
C18_OneTopicPerConversation ==
    \A c1 \in KnownConversationIds, c2 \in KnownConversationIds :
       c1 # c2 => getContentTopic(c1) # getContentTopic(c2)

(***************************************************************************)
(* C19 -- eventually-consistent delete.  When every message built for a    *)
(* conversation has been published, every published payload has been      *)
(* delivered to both participants, no call is still publishing and no      *)
(* participant has deleted locally, the participants have the same set of  *)
(* visible message ids for the conversation.                               *)
(***************************************************************************)
AllDelivered(a, b, conversationId) ==
    /\ publishing = {}
    /\ \A m \in created :
          m.conversationId = conversationId => PayloadOf(m) \in network
    /\ \A w \in network, p \in {a, b} :
          [to |-> p, wakuMessage |-> w] \in delivered
    /\ \A p \in {a, b} : processedMessageIds[p] = StoredIds(p)

C19_EventuallyConsistent ==
    \A a \in Peers, b \in Peers, c \in KnownConversationIds :
       (DirectBetween(a, b, c) /\ AllDelivered(a, b, c))
       => VisibleIds(a, c) = VisibleIds(b, c)

(***************************************************************************)
(* C20 -- createConversation is idempotent on an existing id.  Whenever    *)
(* the id computed for the arguments is already in the caller's registry,  *)
(* the call returns the registered Conversation and changes nothing: the   *)
(* registry, the keys, the subscribed set, the filter callbacks and the    *)
(* re-subscribe timers stay as they are.                                   *)
(***************************************************************************)
C20_CreateIdempotent ==
    \A n \in Peers :
       identity[n] # NoIdentity
       => \A participants \in ParticipantLists(Peers, n), accepted \in BOOLEAN :
             LET conversationId == ConversationIdOn(n, participants, "direct")
                 result == createConversationResult(n, participants, "direct", accepted)
             IN conversationId \in DOMAIN conversations[n]
                => /\ result.returns = conversations[n][conversationId]
                   /\ result.conversations = conversations[n]
                   /\ result.encryptionKeys = encryptionKeys[n]
                   /\ result.subscribed = subscribedConversations[n]
                   /\ result.filter = filterSubscriptions[n]
                   /\ ~result.retry

\* a registered direct conversation whose transport subscription has not
\* been established: a second createConversation finds the existing entry
C20_ExistingUnsubscribed ==
    \E n \in Peers : \E participants \in ParticipantLists(Peers, n) :
       LET conversationId == ConversationIdOn(n, participants, "direct")
       IN /\ identity[n] # NoIdentity
          /\ conversationId \in DOMAIN conversations[n]
          /\ conversationId \notin subscribedConversations[n]
          /\ node[n] # Null

(***************************************************************************)
(* Validation: from construction, the two instances may or may not have    *)
(* run init() and created the conversation when sendMessage, revokeMessage *)
(* and fetchHistory are called, for registered and unregistered ids.       *)
(***************************************************************************)
ConversationIdCandidates ==
    KnownConversationIds \cup {generateConversationId(<<"A", "B">>, "direct", Uuid(1))}

NextValidation ==
    \/ \E n \in Pair : init(n, NoIdentity)
    \/ \E n \in Pair : \E participants \in ParticipantLists(Pair, n) :
          /\ Cardinality(DOMAIN conversations[n]) < MaxConvs
          /\ createConversation(n, participants, "direct", TRUE)
    \/ \E n \in Pair, c \in ConversationIdCandidates, h \in Handlers :
          /\ HandlerCount(n) < MaxHandlers
          /\ subscribe(n, c, h, TRUE)
    \/ \E n \in Pair, c \in ConversationIdCandidates, content \in Contents :
          /\ uuidCounter < MaxMsgs
          /\ Cardinality(publishing) < MaxInflight
          /\ sendMessage(n, c, content)
    \/ \E n \in Pair, c \in ConversationIdCandidates, m \in MessageIds \cup {ForeignId} :
          /\ uuidCounter < MaxMsgs
          /\ Cardinality(publishing) < MaxInflight
          /\ revokeMessage(n, c, m)
    \/ \E call \in publishing, outcomes \in AttemptOutcomes : Publish(call, outcomes)
    \/ \E n \in Pair, c \in ConversationIdCandidates, w \in network :
          /\ Len(handlerLog[n]) < MaxLog
          /\ HistoryCallback(n, c, w)

SpecValidation == Init /\ [][NextValidation]_vars

(***************************************************************************)
(* C21 -- validation errors are side-effect free.  An instance that has    *)
(* not run init() has an empty registry, key table, store and seen-id set, *)
(* none of its handlers has been invoked and none of its calls is          *)
(* publishing; and every message an instance has built or stored belongs   *)
(* to a conversation registered on that instance: calls before init and    *)
(* calls for an unregistered conversation id have left no trace.           *)
(***************************************************************************)
C21_ValidationSideEffectFree ==
    /\ \A n \in Peers :
          identity[n] = NoIdentity
          => /\ conversations[n] = <<>>
             /\ encryptionKeys[n] = <<>>
             /\ store[n] = <<>>
             /\ processedMessageIds[n] = {}
             /\ handlerLog[n] = <<>>
             /\ \A call \in publishing : call.sdk # n
    /\ \A n \in Peers :
          /\ DOMAIN store[n] \subseteq DOMAIN conversations[n]
          /\ \A call \in publishing :
                call.sdk = n =>
                   \E c \in DOMAIN conversations[n] :
                      call.contentTopic = getContentTopic(c)
    /\ \A m \in created :
          /\ m.sender \in Peers
          /\ m.conversationId \in DOMAIN conversations[m.sender]

\* one instance has a registered conversation with a message in it while
\* the other has not run init(), or has run it without registering the id
C21_CallsThatMustFail ==
    \E n \in Pair, p \in Pair, c \in KnownConversationIds :
       /\ c \in DOMAIN store[p]
       /\ c \notin DOMAIN conversations[n]
       /\ \E h \in Handlers : HandlersOf(n, c) = <<h>>

(***************************************************************************)
(* One round of the cipher: encryptMessage is applied to a plaintext and a *)
(* key, decryptMessage to the result under the same key.                   *)
(***************************************************************************)
InitCipher ==
    /\ identity = [n \in Peers |-> NoIdentity]
    /\ node = [n \in Peers |-> Null]
    /\ conversations = [n \in Peers |-> <<>>]
    /\ encryptionKeys = [n \in Peers |-> <<>>]
    /\ store = [n \in Peers |-> <<>>]
    /\ processedMessageIds = [n \in Peers |-> {}]
    /\ messageHandlers = [n \in Peers |-> <<>>]
    /\ subscribedConversations = [n \in Peers |-> {}]
    /\ filterSubscriptions = [n \in Peers |-> <<>>]
    /\ subscribing = [n \in Peers |-> <<>>]
    /\ resubscribeTimers = [n \in Peers |-> {}]
    /\ publishing = {}
    /\ handlerLog = [n \in Peers |-> <<>>]
    /\ network = {}
    /\ delivered = {}
    /\ created = {}
    /\ uuidCounter = 0
    /\ groupCounter = 0
    /\ foreignCount = 0
    /\ options = [n \in Peers |-> [storeMessages |-> FALSE]]
    /\ localStorage = [n \in Peers |-> NoItem]
    /\ \E plaintext \in StringsUpTo(MaxPlaintextLen), key \in CipherKeys :
          roundTrip = [pc |-> "plain", plaintext |-> plaintext, key |-> key,
                       ciphertext |-> <<>>, decrypted |-> <<>>]
    /\ historyCalls = [n \in Peers |-> NoHistoryCall]
    /\ retryRun = NoRetryRun

Encrypt ==
    /\ roundTrip.pc = "plain"
    /\ roundTrip' = [roundTrip EXCEPT
                        !.pc = "encrypted",
                        !.ciphertext = encryptMessageBytes(roundTrip.plaintext,
                                                           roundTrip.key)]
    /\ UNCHANGED <<identity, node, conversations, encryptionKeys, store,
                   processedMessageIds, messageHandlers, subscribedConversations,
                   filterSubscriptions, subscribing, resubscribeTimers,
                   publishing, handlerLog, network, delivered, created,
                   uuidCounter, groupCounter, foreignCount, options, localStorage,
                   historyCalls, retryRun>>

Decrypt ==
    /\ roundTrip.pc = "encrypted"
    /\ roundTrip' = [roundTrip EXCEPT
                        !.pc = "decrypted",
                        !.decrypted = decryptMessageBytes(roundTrip.ciphertext,
                                                          roundTrip.key)]
    /\ UNCHANGED <<identity, node, conversations, encryptionKeys, store,
                   processedMessageIds, messageHandlers, subscribedConversations,
                   filterSubscriptions, subscribing, resubscribeTimers,
                   publishing, handlerLog, network, delivered, created,
                   uuidCounter, groupCounter, foreignCount, options, localStorage,
                   historyCalls, retryRun>>

NextCipher == Encrypt \/ Decrypt

SpecCipher == InitCipher /\ [][NextCipher]_vars

RoundTripOfBytes ==
    roundTrip.pc = "encrypted"
    => XorWithKey(roundTrip.ciphertext, derivedKeyBytes(roundTrip.key))
          = TextEncoderEncode(roundTrip.plaintext)

\* the strings for which the round trip is exact: no lone surrogate, no
\* leading U+FEFF
WellFormed(str) ==
    \A i \in 1..Len(str) :
       /\ IsHighSurrogate(str[i]) => i < Len(str) /\ IsLowSurrogate(str[i + 1])
       /\ IsLowSurrogate(str[i]) => i > 1 /\ IsHighSurrogate(str[i - 1])

RoundTripOfWellFormed ==
    /\ roundTrip.pc = "decrypted"
    /\ WellFormed(roundTrip.plaintext)
    /\ (roundTrip.plaintext = <<>> \/ roundTrip.plaintext[1] # ByteOrderMark)
    => roundTrip.decrypted = roundTrip.plaintext

(***************************************************************************)
(* Identity acquisition: each device starts with some content of its       *)
(* identity item (nothing, an identity of an earlier session, the text     *)
(* "{}", unparsable text, or no usable storage) and init() is called with  *)
(* or without an identity; resetIdentity() removes the item.               *)
(***************************************************************************)
StoredItems(n) ==
    {NoItem, MalformedItem, StorageUnavailable,
     JSONstringify(EarlierIdentity(n)), JSONstringify(EmptyObject)}

InitArguments(n) == {NoIdentity, EarlierIdentity(n)}

InitIdentity ==
    /\ identity = [n \in Peers |-> NoIdentity]
    /\ node = [n \in Peers |-> Null]
    /\ conversations = [n \in Peers |-> <<>>]
    /\ encryptionKeys = [n \in Peers |-> <<>>]
    /\ store = [n \in Peers |-> <<>>]
    /\ processedMessageIds = [n \in Peers |-> {}]
    /\ messageHandlers = [n \in Peers |-> <<>>]
    /\ subscribedConversations = [n \in Peers |-> {}]
    /\ filterSubscriptions = [n \in Peers |-> <<>>]
    /\ subscribing = [n \in Peers |-> <<>>]
    /\ resubscribeTimers = [n \in Peers |-> {}]
    /\ publishing = {}
    /\ handlerLog = [n \in Peers |-> <<>>]
    /\ network = {}
    /\ delivered = {}
    /\ created = {}
    /\ uuidCounter = 0
    /\ groupCounter = 0
    /\ foreignCount = 0
    /\ options = [n \in Peers |-> [storeMessages |-> FALSE]]
    /\ localStorage \in {items \in [Peers -> UNION {StoredItems(n) : n \in Peers}] :
                              \A n \in Peers : items[n] \in StoredItems(n)}
    /\ roundTrip = NoRoundTrip
    /\ historyCalls = [n \in Peers |-> NoHistoryCall]
    /\ retryRun = NoRetryRun

resetIdentity(n) ==
    /\ localStorage[n] \notin {NoItem, StorageUnavailable}
    /\ localStorage' = [localStorage EXCEPT ![n] = NoItem]
    /\ UNCHANGED <<identity, node, conversations, encryptionKeys, store,
                   processedMessageIds, messageHandlers, subscribedConversations,
                   filterSubscriptions, subscribing, resubscribeTimers,
                   publishing, handlerLog, network, delivered, created,
                   uuidCounter, groupCounter, foreignCount, options, roundTrip,
                   historyCalls, retryRun>>

NextIdentity ==
    \/ \E n \in Peers : \E supplied \in InitArguments(n) : init(n, supplied)
    \/ \E n \in Peers : resetIdentity(n)
    \/ \E n \in Peers : close(n)

SpecIdentity == InitIdentity /\ [][NextIdentity]_vars

(***************************************************************************)
(* C23 -- identity acquisition.  Every init(supplied) step leaves the      *)
(* instance with an identity (init does not fail, whatever the item        *)
(* holds); a supplied identity is the one installed; without argument the  *)
(* identity the item holds is installed and the item left as it is; only   *)
(* when the item holds none or cannot be read is a fresh identity          *)
(* generated, and saved where the storage can be written.                  *)
(***************************************************************************)
C23_IdentityAcquisition ==
    [][\A n \in Peers : \A supplied \in InitArguments(n) :
          init(n, supplied)
          => /\ identity'[n] # NoIdentity
             /\ supplied # NoIdentity => identity'[n] = supplied
             /\ supplied = NoIdentity /\ localStorage[n].kind = "json"
                => /\ identity'[n] = localStorage[n].value
                   /\ localStorage'[n] = localStorage[n]
             /\ supplied = NoIdentity /\ localStorage[n].kind # "json"
                => /\ identity'[n] = generateIdentity(n)
                   /\ localStorage[n].kind # "throws"
                      => localStorage'[n] = JSONstringify(generateIdentity(n))
             /\ identity'[n] = generateIdentity(n)
                => supplied = NoIdentity /\ localStorage[n].kind # "json"]_vars

\* one instance runs on the identity of an earlier session, taken from its
\* item; another generated a fresh one on a device without usable storage
C23_LoadedAndGenerated ==
    \E n, p \in Peers :
       /\ identity[n] = EarlierIdentity(n)
       /\ localStorage[n] = JSONstringify(EarlierIdentity(n))
       /\ identity[p] = generateIdentity(p)
       /\ localStorage[p] = StorageUnavailable

(***************************************************************************)
(* History: the two instances of Pair, started with the Store protocol on  *)
(* or off, exchange messages, go offline and call fetchHistory; the store  *)
(* query resolves at the first or the last attempt, rejects every time, or *)
(* never settles.                                                          *)
(***************************************************************************)
HistoryOutcomes ==
    {[i \in 1..HistoryRetries |-> "resolves"],
     [i \in 1..HistoryRetries |->
         IF i = HistoryRetries THEN "resolves" ELSE "rejects"],
     [i \in 1..HistoryRetries |-> "rejects"],
     [i \in 1..HistoryRetries |-> IF i = 1 THEN "hangs" ELSE "rejects"]}

MaxHistoryMsgs == 1

StartedHistory == \E storeMessages \in BOOLEAN : StartedWith(Pair, storeMessages)

NextHistory ==
    \/ \E n \in Pair : \E participants \in ParticipantLists(Pair, n) :
          /\ Cardinality(DOMAIN conversations[n]) < MaxConvs
          /\ createConversation(n, participants, "direct", TRUE)
    \/ \E n \in Pair, c \in KnownConversationIds, h \in Handlers :
          /\ HandlerCount(n) < MaxHandlers
          /\ subscribe(n, c, h, TRUE)
    \/ \E n \in Pair, c \in KnownConversationIds, content \in Contents :
          /\ uuidCounter < MaxHistoryMsgs
          /\ Cardinality(publishing) < MaxInflight
          /\ sendMessage(n, c, content)
    \/ \E call \in publishing, outcomes \in AttemptOutcomes : Publish(call, outcomes)
    \/ \E n \in Pair : close(n)
    \/ \E n \in Pair, c \in KnownConversationIds, outcomes \in HistoryOutcomes :
          fetchHistoryCall(n, c, outcomes)
    \/ \E n \in Pair, w \in network :
          /\ Len(handlerLog[n]) < MaxLog
          /\ HistoryReplay(n, w)
    \/ \E n \in Pair : fetchHistoryReturns(n)

SpecHistory == StartedHistory /\ [][NextHistory]_vars

\* the instance cannot query history, or the query rejects at every attempt
NoHistoryCapability(n, outcomes) ==
    \/ node[n] = Null
    \/ ~options[n].storeMessages
    \/ \A i \in 1..HistoryRetries : outcomes[i] = "rejects"

OrderedHandlers == {"h1", "h2"}
MaxOrderedHandlers == 2
MaxOrderedMsgs == 1
MaxOrderedLog == 2

NextHandlers ==
    \/ \E n \in Pair : \E participants \in ParticipantLists(Pair, n) :
          /\ Cardinality(DOMAIN conversations[n]) < MaxConvs
          /\ createConversation(n, participants, "direct", TRUE)
    \/ \E n \in Pair, c \in KnownConversationIds, h \in OrderedHandlers :
          /\ HandlerCount(n) < MaxOrderedHandlers
          /\ subscribe(n, c, h, TRUE)
    \/ \E n \in Pair, c \in KnownConversationIds, content \in Contents :
          /\ uuidCounter < MaxOrderedMsgs
          /\ Cardinality(publishing) < MaxInflight
          /\ sendMessage(n, c, content)
    \/ \E call \in publishing, outcomes \in AttemptOutcomes : Publish(call, outcomes)
    \/ \E n \in Pair, c \in KnownConversationIds, w \in network :
          /\ Len(handlerLog[n]) < MaxOrderedLog
          /\ Deliver(n, c, w)
    \/ \E target \in Pair, sender \in Pair, i \in 1..MaxConvs :
          \E id \in MessageIds \cup {ForeignId} :
             /\ foreignCount < MaxForeign
             /\ sender # target
             /\ ForeignPublish(target, i, sender, id, "text", Undefined)

SpecHandlers == Started /\ [][NextHandlers]_vars

\* the invocations a step adds to the handler log of n
NewInvocations(n) ==
    SubSeq(handlerLog'[n], Len(handlerLog[n]) + 1, Len(handlerLog'[n]))

(***************************************************************************)
(* C25 -- handler ordering.  In every step that invokes handlers on an     *)
(* instance, the invocations are for one message, whose id is then in the  *)
(* seen-id set, and which the same step has put at the end of the log of   *)
(* its conversation unless its id had been stored before; and they are     *)
(* the handlers registered for the message's conversation, each once, in   *)
(* the order of registration.                                              *)
(***************************************************************************)
C25_HandlerOrdering ==
    [][\A n \in Peers :
          NewInvocations(n) # <<>>
          => LET message == NewInvocations(n)[1].message
                 c == message.conversationId
             IN /\ message.id \in processedMessageIds'[n]
                /\ message.id \notin processedMessageIds[n]
                   => /\ c \in DOMAIN store'[n]
                      /\ store'[n][c][Len(store'[n][c])] = message
                /\ NewInvocations(n) =
                      [i \in 1..Len(HandlersOf(n, c)) |->
                          [handler |-> HandlersOf(n, c)[i], message |-> message]]]_vars

\* two different handlers were registered for a conversation, h2 first,
\* and both have been invoked with a message that is in the log
C25_TwoHandlersInvoked ==
    \E n \in Pair, c \in KnownConversationIds :
       /\ HandlersOf(n, c) = <<"h2", "h1">>
       /\ Len(handlerLog[n]) = 2
       /\ handlerLog[n][1].handler = "h2"
       /\ handlerLog[n][2].handler = "h1"
       /\ handlerLog[n][1].message \in Stored(n)

(***************************************************************************)
(* C26 -- close() is idempotent.  For every instance, whether or not       *)
(* node.stop() throws: a close() leaves this.node null and does not        *)
(* reject, and a further close() changes nothing and does not reject.      *)
(***************************************************************************)
C26_CloseIdempotent ==
    \A n \in Peers, stopFails \in BOOLEAN, stopFailsAgain \in BOOLEAN :
       LET first == closeOutcome(node[n], stopFails)
           second == closeOutcome(first.node, stopFailsAgain)
       IN /\ first.node = Null
          /\ ~first.rejected
          /\ second.node = first.node
          /\ ~second.rejected

\* one instance has been closed with messages in its log while the other's
\* node is still running
C26_ClosedOnce ==
    \E n, p \in Pair :
       /\ node[n] = Null
       /\ store[n] # <<>>
       /\ node[p] # Null

(***************************************************************************)
(* Registry: the two instances of Pair create direct and group             *)
(* conversations with any of the peers, repeatedly, while payloads for     *)
(* their conversations arrive from the open transport.                     *)
(***************************************************************************)
MaxRegistryConvs == 2

NextRegistry ==
    \/ \E n \in Pair, type \in {"direct", "group"} :
          \E participants \in ParticipantLists(Peers, n) :
             /\ type = "group" => groupCounter < MaxGroups
             /\ \/ Cardinality(DOMAIN conversations[n]) < MaxRegistryConvs
                \/ ConversationIdOn(n, participants, type) \in DOMAIN conversations[n]
             /\ createConversation(n, participants, type, TRUE)
    \/ \E target \in Pair, sender \in Peers, i \in 1..MaxRegistryConvs :
          /\ foreignCount < MaxForeign
          /\ sender # target
          /\ ForeignPublish(target, i, sender, ForeignId, "text", Undefined)
    \/ \E n \in Pair, c \in KnownConversationIds, w \in network :
          /\ Len(handlerLog[n]) < MaxLog
          /\ Deliver(n, c, w)

SpecRegistry == Started /\ [][NextRegistry]_vars

(***************************************************************************)
(* C27 -- conversation immutability.  In every step, a conversation that   *)
(* is in an instance's registry is still in it afterwards, with the same   *)
(* id and kind, and with every participant it had.                         *)
(***************************************************************************)
C27_ConversationImmutable ==
    [][\A n \in Peers : \A c \in DOMAIN conversations[n] :
          /\ c \in DOMAIN conversations'[n]
          /\ conversations'[n][c].id = conversations[n][c].id
          /\ conversations'[n][c].type = conversations[n][c].type
          /\ \A i \in 1..Len(conversations[n][c].participants) :
                \E j \in 1..Len(conversations'[n][c].participants) :
                   conversations'[n][c].participants[j]
                      = conversations[n][c].participants[i]]_vars

\* an instance holds a group conversation of three and has stored a
\* payload that arrived for it from the transport
C27_InboundForGroup ==
    \E n \in Pair : \E c \in DOMAIN conversations[n] :
       /\ conversations[n][c].type = "group"
       /\ Len(conversations[n][c].participants) = 3
       /\ \E t \in Stored(n) : t.conversationId = c /\ t.sender # n

\* no key of n attributes the payload w: under each, the payload fails to
\* decrypt to a message, or the message fails the signature, the MAC or
\* the conversation-id match
Unattributable(n, w) ==
    \A i \in 1..Len(encryptionKeys[n]) :
       LET entry == encryptionKeys[n][i]
           decrypted == decryptMessage(w.payload, entry.key)
       IN \/ ~decrypted.parses
          \/ ~verifySignature(decrypted.message)
          \/ ~verifyMAC(decrypted.message, entry.key)
          \/ decrypted.message.conversationId # entry.id

(***************************************************************************)
(* C28 -- unattributable payloads are dropped silently.  A transport       *)
(* callback, live or from history replay, for a payload that no known key  *)
(* attributes completes and leaves the instance's store, seen-id set,      *)
(* registry and handler log as they were.                                  *)
(***************************************************************************)
C28_UnattributableDropped ==
    [][\A n \in Peers, c \in KnownConversationIds, w \in network :
          ( /\ Deliver(n, c, w) \/ HistoryCallback(n, c, w)
            /\ Unattributable(n, w) )
          => /\ store'[n] = store[n]
             /\ processedMessageIds'[n] = processedMessageIds[n]
             /\ conversations'[n] = conversations[n]
             /\ handlerLog'[n] = handlerLog[n]]_vars

\* an instance with a key and a registered handler has been handed a
\* payload that none of its keys attributes
C28_UnattributableArrived ==
    \E d \in delivered :
       /\ encryptionKeys[d.to] # <<>>
       /\ \E c \in DOMAIN messageHandlers[d.to] :
             d.wakuMessage.contentTopic = getContentTopic(c)
       /\ Unattributable(d.to, d.wakuMessage)

(***************************************************************************)
(* Authentication: the two instances of Pair exchange messages and         *)
(* tombstones while the outside party publishes well-formed and defective  *)
(* payloads; payloads reach the instances live and by history replay.      *)
(***************************************************************************)
MaxAuthMsgs == 1
MaxAuthForeign == 2

NextAuth ==
    \/ \E n \in Pair : \E participants \in ParticipantLists(Pair, n) :
          /\ Cardinality(DOMAIN conversations[n]) < MaxConvs
          /\ createConversation(n, participants, "direct", TRUE)
    \/ \E n \in Pair, c \in KnownConversationIds, h \in Handlers :
          /\ HandlerCount(n) < MaxHandlers
          /\ subscribe(n, c, h, TRUE)
    \/ \E n \in Pair, c \in KnownConversationIds, content \in Contents :
          /\ uuidCounter < MaxAuthMsgs
          /\ Cardinality(publishing) < MaxInflight
          /\ sendMessage(n, c, content)
    \/ \E call \in publishing, outcomes \in AttemptOutcomes : Publish(call, outcomes)
    \/ \E n \in Pair, c \in KnownConversationIds, w \in network :
          /\ Len(handlerLog[n]) < MaxLog
          /\ Deliver(n, c, w)
    \/ \E n \in Pair, c \in KnownConversationIds, w \in network :
          /\ Len(handlerLog[n]) < MaxLog
          /\ HistoryCallback(n, c, w)
    \/ \E target \in Pair, sender \in Pair, i \in 1..MaxConvs :
          /\ foreignCount < MaxAuthForeign
          /\ sender # target
          /\ ForeignPublish(target, i, sender, ForeignId, "text", Undefined)
    \/ \E target \in Pair, sender \in Pair, i \in 1..MaxConvs, defect \in Defects :
          /\ foreignCount < MaxAuthForeign
          /\ sender # target
          /\ DefectivePublish(target, i, sender, ForeignId, defect)

SpecAuth == Started /\ [][NextAuth]_vars

\* the message carries a signature and a MAC that verify under the key n
\* holds for the message's conversation, which n has registered
Authentic(n, message) ==
    /\ message.conversationId \in DOMAIN conversations[n]
    /\ verifySignature(message)
    /\ verifyMAC(message, KeyOf(n, message.conversationId))

NewlyStored(n) == Stored(n)' \ Stored(n)

(***************************************************************************)
(* C29 -- only authenticated messages are stored from the transport.  In   *)
(* every transport callback, live or from history replay, each message     *)
(* the callback puts in the store or hands to a handler carries a          *)
(* signature and a MAC that verify under the instance's key of the         *)
(* message's conversation, and lies in the log of that conversation.       *)
(***************************************************************************)
C29_OnlyAuthenticatedStored ==
    [][delivered' # delivered
       => \A n \in Peers :
             /\ \A t \in NewlyStored(n) :
                   /\ Authentic(n, t)
                   /\ t \in {store'[n][t.conversationId][i] :
                               i \in 1..Len(store'[n][t.conversationId])}
             /\ \A i \in 1..Len(NewInvocations(n)) :
                   Authentic(n, NewInvocations(n)[i].message)]_vars

\* an instance has been handed a defective payload encrypted under its own
\* key, and has stored a well-formed one that came from the transport
C29_DefectiveAndAuthenticArrived ==
    \E d \in delivered :
       /\ KeyOf(d.to, d.wakuMessage.payload.plain.conversationId)
             = d.wakuMessage.payload.key
       /\ d.wakuMessage.payload.plain.mac = NoHash
       /\ verifySignature(d.wakuMessage.payload.plain)
       /\ \E t \in Stored(d.to) : t.id = ForeignId /\ Authentic(d.to, t)
       /\ HandlerCount(d.to) > 0

(***************************************************************************)
(* C30 -- tombstones carry the same signature/MAC envelope.  Every         *)
(* tombstone revokeMessage has built has kind tombstone, names the         *)
(* target id in tombstoneFor, has empty content, and carries a signature   *)
(* and a MAC that verify under its author's key of the conversation.       *)
(***************************************************************************)
C30_TombstoneEnvelope ==
    \A m \in created :
       m.type = "tombstone"
       => /\ m.tombstoneFor # Undefined
          /\ m.content = ""
          /\ m.signature # NoHash
          /\ m.mac # NoHash
          /\ verifySignature(m)
          /\ verifyMAC(m, KeyOf(m.sender, m.conversationId))

\* all of it but the MAC does hold of the tombstones revokeMessage builds
TombstoneSignedOnly ==
    \A m \in created :
       m.type = "tombstone"
       => /\ m.tombstoneFor # Undefined
          /\ m.content = ""
          /\ verifySignature(m)
          /\ m.mac = NoHash

\* every conversation registered at n has an entry in n's key table
RegistryHasKeys(n) ==
    \A c \in DOMAIN conversations[n] : KeyOf(n, c) # Null

(***************************************************************************)
(* C31 -- every registered conversation has a key, and keys stay.  Before  *)
(* and after every step each conversation in an instance's registry has    *)
(* an entry in its key table (so sendMessage and revokeMessage find the    *)
(* key of any conversation they accept), and the step keeps every entry    *)
(* of the key table, with its key, at its place.                           *)
(***************************************************************************)
C31_RegisteredHaveKeys ==
    [][\A n \in Peers :
          /\ RegistryHasKeys(n)
          /\ RegistryHasKeys(n)'
          /\ Len(encryptionKeys'[n]) >= Len(encryptionKeys[n])
          /\ \A i \in 1..Len(encryptionKeys[n]) :
                encryptionKeys'[n][i] = encryptionKeys[n][i]]_vars

\* an instance holds two conversations, each with its key, created one
\* after the other, and has stored a payload from the transport
C31_TwoKeysHeld ==
    \E n \in Pair :
       /\ Cardinality(DOMAIN conversations[n]) = 2
       /\ Len(encryptionKeys[n]) = 2
       /\ RegistryHasKeys(n)
       /\ \E t \in Stored(n) : t.sender # n

(***************************************************************************)
(* Retry: one run of retryWithTimeout(fn, maxRetries) for every maxRetries *)
(* up to MaxRetriesArg and every way the invocations of fn can end.        *)
(***************************************************************************)
MaxRetriesArg == 5

InitRetry ==
    /\ identity = [n \in Peers |-> NoIdentity]
    /\ node = [n \in Peers |-> Null]
    /\ conversations = [n \in Peers |-> <<>>]
    /\ encryptionKeys = [n \in Peers |-> <<>>]
    /\ store = [n \in Peers |-> <<>>]
    /\ processedMessageIds = [n \in Peers |-> {}]
    /\ messageHandlers = [n \in Peers |-> <<>>]
    /\ subscribedConversations = [n \in Peers |-> {}]
    /\ filterSubscriptions = [n \in Peers |-> <<>>]
    /\ subscribing = [n \in Peers |-> <<>>]
    /\ resubscribeTimers = [n \in Peers |-> {}]
    /\ publishing = {}
    /\ handlerLog = [n \in Peers |-> <<>>]
    /\ network = {}
    /\ delivered = {}
    /\ created = {}
    /\ uuidCounter = 0
    /\ groupCounter = 0
    /\ foreignCount = 0
    /\ options = [n \in Peers |-> [storeMessages |-> FALSE]]
    /\ localStorage = [n \in Peers |-> NoItem]
    /\ roundTrip = NoRoundTrip
    /\ historyCalls = [n \in Peers |-> NoHistoryCall]
    /\ \E maxRetries \in 0..MaxRetriesArg :
          retryRun = [pc |-> "loop", maxRetries |-> maxRetries, i |-> 0,
                      calls |-> <<>>, lastError |-> Null, thrown |-> Null]

NextRetry == \E outcome \in {"resolves", "hangs"} \cup FnErrors : RetryStep(outcome)

SpecRetry == InitRetry /\ [][NextRetry]_vars

\* how the invocations of the run ended, as retryWithTimeout's argument
OutcomesOf(run) ==
    [k \in 1..MaxRetriesArg |->
        IF k <= Len(run.calls) /\ run.calls[k] \in {"resolves", "hangs"}
        THEN run.calls[k] ELSE "rejects"]

(***************************************************************************)
(* C32 -- bounded retry.  A run of retryWithTimeout invokes the operation  *)
(* at most maxRetries times; no invocation follows one that resolved; the  *)
(* run returns exactly when its last invocation resolved; it fails after   *)
(* maxRetries rejected invocations, with the error of the last one; the    *)
(* publish of one sendMessage/revokeMessage thus makes at most 5 attempts  *)
(* and one history query at most 3.                                        *)
(***************************************************************************)
C32_BoundedRetry ==
    LET run == retryRun
        made == Len(run.calls)
        result == retryWithTimeout(OutcomesOf(run), run.maxRetries)
    IN /\ made <= run.maxRetries
       /\ \A k \in 1..(made - 1) : run.calls[k] \in FnErrors
       /\ run.pc = "returned" => made > 0 /\ run.calls[made] = "resolves"
       /\ made > 0 /\ run.calls[made] = "resolves" => run.pc = "returned"
       /\ run.pc = "threw"
          => /\ made = run.maxRetries
             /\ \A k \in 1..made : run.calls[k] \in FnErrors
             /\ made > 0 => run.thrown = Rethrown(run.calls[made])
       /\ run.pc \in {"returned", "threw", "parked"}
          => /\ result.attempts = made
             /\ result.ok = (run.pc = "returned")
             /\ result.returned = (run.pc # "parked")
       /\ \A outcomes \in AttemptOutcomes :
             retryWithTimeout(outcomes, PublishRetries).attempts <= PublishRetries
       /\ \A outcomes \in HistoryOutcomes :
             retryWithTimeout(outcomes, HistoryRetries).attempts <= HistoryRetries

\* a run with five retries gave up after five rejected invocations, the
\* last one with another error than the one before
C32_GaveUpAfterFive ==
    /\ retryRun.pc = "threw"
    /\ retryRun.maxRetries = PublishRetries
    /\ Len(retryRun.calls) = PublishRetries
    /\ retryRun.calls[4] # retryRun.calls[5]
    /\ retryRun.thrown = "Operation timed out"

(***************************************************************************)
(* The visible list as a function of the set of stored messages.           *)
(***************************************************************************)
LogSet(n, conversationId) ==
    LET messages == getMessages(n, conversationId)
    IN {messages[i] : i \in 1..Len(messages)}

\* the ids the set of stored messages leaves visible
VisibleOfSet(S) ==
    {m.id : m \in {x \in S : /\ x.type # "tombstone"
                             /\ ~\E t \in S : /\ t.type = "tombstone"
                                              /\ t.tombstoneFor = x.id}}

\* C33: the visible messages of a conversation are determined by the set of
\* distinct messages in its log, whatever the order and the number of
\* deliveries that built the log: the visible ids are the ids of the stored
\* non-tombstones that no stored tombstone names, a tombstone stored before
\* its target hides it like one stored after it, two logs with the same
\* messages show the same ids, and the log holds no message twice.
C33_VisibleDependsOnSet ==
    /\ \A n \in Peers, c \in KnownConversationIds :
          /\ VisibleIds(n, c) = VisibleOfSet(LogSet(n, c))
          /\ LET messages == getMessages(n, c)
             IN /\ \A i, j \in 1..Len(messages) :
                      ( /\ messages[i].type = "tombstone"
                        /\ messages[i].tombstoneFor = messages[j].id )
                      => messages[j].id \notin VisibleIds(n, c)
                /\ \A i, j \in 1..Len(messages) :
                      messages[i].id = messages[j].id => i = j
    /\ \A n1, n2 \in Peers, c1, c2 \in KnownConversationIds :
          LogSet(n1, c1) = LogSet(n2, c2) => VisibleIds(n1, c1) = VisibleIds(n2, c2)

\* a log holds a tombstone in front of the message it names, which arrived
\* later from the network and is hidden
C33_TombstoneBeforeTarget ==
    \E n \in Pair, c \in KnownConversationIds :
       LET messages == getMessages(n, c)
       IN /\ Len(messages) = 2
          /\ messages[1].type = "tombstone"
          /\ messages[1].tombstoneFor = messages[2].id
          /\ messages[2].type = "text"
          /\ \E d \in delivered : d.to = n
          /\ VisibleIds(n, c) = {}

(***************************************************************************)
(* C34 -- stored messages belong to registered conversations.  Every log   *)
(* of an instance's store is the log of a conversation in that instance's  *)
(* registry, and every message in the log of conversation c names c as     *)
(* its conversation; in every transport callback the messages that enter   *)
(* the store enter the log of a registered conversation they name.         *)
(***************************************************************************)
StoreWithinRegistry(n) ==
    /\ DOMAIN store[n] \subseteq DOMAIN conversations[n]
    /\ \A c \in DOMAIN store[n] : \A i \in 1..Len(store[n][c]) :
          store[n][c][i].conversationId = c

C34_StoredInRegisteredConversation ==
    [][\A n \in Peers :
          /\ StoreWithinRegistry(n)
          /\ StoreWithinRegistry(n)'
          /\ delivered' # delivered
             => \A t \in NewlyStored(n) :
                   /\ t.conversationId \in DOMAIN conversations'[n]
                   /\ \A c \in DOMAIN store'[n] :
                         (\E i \in 1..Len(store'[n][c]) : store'[n][c][i] = t)
                         => c = t.conversationId]_vars

\* an instance has been handed a verifying payload that names another
\* conversation than the one whose key encrypts it, and holds a message
\* from the transport in the log of a registered conversation
C34_MisroutedArrived ==
    \E d \in delivered :
       /\ d.wakuMessage.payload.plain.conversationId = OtherConversationId
       /\ verifySignature(d.wakuMessage.payload.plain)
       /\ \E i \in 1..Len(encryptionKeys[d.to]) :
             /\ encryptionKeys[d.to][i].key = d.wakuMessage.payload.key
             /\ verifyMAC(d.wakuMessage.payload.plain, encryptionKeys[d.to][i].key)
       /\ \E c \in DOMAIN store[d.to] : \E i \in 1..Len(store[d.to][c]) :
             /\ store[d.to][c][i].id = ForeignId
             /\ store[d.to][c][i].sender # d.to

(***************************************************************************)
(* Conversation ids: the two instances create direct and group             *)
(* conversations with participant ids as a caller may type them, which     *)
(* are arbitrary strings (App.tsx splits the input field at commas).       *)
(***************************************************************************)
MaxIdConvs == 2

NextIds ==
    \/ \E n \in Pair, p \in ParticipantIds :
          /\ \/ Cardinality(DOMAIN conversations[n]) < MaxIdConvs
             \/ ConversationIdOn(n, <<p>>, "direct") \in DOMAIN conversations[n]
          /\ createConversation(n, <<p>>, "direct", TRUE)
    \/ \E n \in Pair, p, q \in ParticipantIds :
          /\ \/ Cardinality(DOMAIN conversations[n]) < MaxIdConvs
             \/ ConversationIdOn(n, <<p, q>>, "direct") \in DOMAIN conversations[n]
          /\ createConversation(n, <<p, q>>, "direct", TRUE)
    \/ \E n \in Pair, p \in ParticipantIds :
          /\ groupCounter < MaxGroups
          /\ Cardinality(DOMAIN conversations[n]) < MaxIdConvs
          /\ createConversation(n, <<p>>, "group", TRUE)

SpecIds == Started /\ [][NextIds]_vars

\* the registry entries of all instances
RegistryEntries ==
    UNION {{conversations[n][c] : c \in DOMAIN conversations[n]} : n \in Peers}

\* C35: direct conversation ids are injective on canonical participant
\* sets: two direct conversations created from different deduplicated,
\* sorted participant lists never have the same id, and a direct
\* conversation never has the id of a group conversation.
C35_DirectIdsInjective ==
    \A x, y \in RegistryEntries :
       /\ ( /\ x.type = "direct"
            /\ y.type = "direct"
            /\ x.participants # y.participants ) => x.id # y.id
       /\ (x.type = "direct" /\ y.type = "group") => x.id # y.id

\* every direct entry carries the id its own participant list yields, with
\* the caller among the participants
DirectIdsDerived ==
    \A n \in Peers : \A c \in DOMAIN conversations[n] :
       conversations[n][c].type = "direct"
       => /\ c = Join(conversations[n][c].participants)
          /\ \E i \in 1..Len(conversations[n][c].participants) :
                conversations[n][c].participants[i] = identity[n].peerId

(***************************************************************************)
(* close() while operations are in flight.  The publish of a sendMessage   *)
(* or revokeMessage call runs the retry loop one attempt per step, the     *)
(* calls of subscribeToConversation run up to their await and settle       *)
(* later, and close() may come between any two of these steps.             *)
(***************************************************************************)
\* an attempt that sends on the node the call saw when it started
lightPushSendOnCapturedNode(n, outcome) == outcome

\* this.node!.lightPush.send(...) inside fn, lines 397-402: with this.node
\* null the property access throws a TypeError, so the attempt rejects
\* without a send
lightPushSend(n, outcome) == IF node[n] = Null THEN "TypeError" ELSE outcome

\* the retry loop of the call in the publish part, at its next pass
PublishRun ==
    IF retryRun.pc = "idle"
    THEN [NoRetryRun EXCEPT !.pc = "loop", !.maxRetries = PublishRetries]
    ELSE retryRun

\* one pass of the retry loop of a call in the publish part
PublishAttempt(call, outcome) ==
    /\ call \in publishing
    /\ ~call.parked
    /\ retryRun.pc \in {"idle", "loop"}
    /\ LET after == retryStep(PublishRun, lightPushSend(call.sdk, outcome))
       IN /\ network' = IF after.pc = "returned"
                        THEN network \cup {[contentTopic |-> call.contentTopic,
                                            payload |-> call.payload]}
                        ELSE network
          /\ publishing' =
                IF after.pc \in {"returned", "threw"} THEN publishing \ {call}
                ELSE IF after.pc = "parked"
                THEN (publishing \ {call}) \cup {[call EXCEPT !.parked = TRUE]}
                ELSE publishing
          /\ retryRun' = IF after.pc = "loop" THEN after ELSE NoRetryRun
    /\ UNCHANGED <<identity, node, conversations, encryptionKeys, store,
                   processedMessageIds, messageHandlers, subscribedConversations,
                   filterSubscriptions, subscribing, resubscribeTimers,
                   handlerLog, delivered, created, uuidCounter, groupCounter,
                   foreignCount, options, localStorage, roundTrip, historyCalls>>

\* how lightPush.send ends on a live node: it resolves with a result, its
\* promise never settles, or it resolves without one (lines 398-402)
SendOutcomes == {"resolves", "hangs", "LightPush send failed"}

MaxCloseMsgs == 2

\* no call of n is inside its retry loop
NoPublishRunning(n) == node[n] # Null => \A call \in publishing : call.parked

\* the instance whose calls and close() are interleaved
Closing == {"A"}

NextClose ==
    \/ \E n \in Closing : \E participants \in ParticipantLists(Pair, n) :
          /\ \/ Cardinality(DOMAIN conversations[n]) < MaxConvs
             \/ ConversationIdOn(n, participants, "direct") \in DOMAIN conversations[n]
          /\ SubscribingCount < MaxSubscribing
          /\ createConversationCall(n, participants, "direct")
    \/ \E n \in Closing, c \in KnownConversationIds, h \in Handlers :
          /\ HandlerCount(n) < MaxHandlers
          /\ SubscribingCount < MaxSubscribing
          /\ subscribeCall(n, c, h)
    \/ \E n \in Closing, c \in KnownConversationIds, accepted \in SubscribeOutcomes :
          SubscribeSettles(n, c, accepted)
    \/ \E n \in Closing, c \in KnownConversationIds :
          /\ SubscribingCount < MaxSubscribing
          /\ ResubscribeCall(n, c)
    \/ \E n \in Closing, c \in KnownConversationIds, content \in Contents :
          /\ uuidCounter < MaxCloseMsgs
          /\ NoPublishRunning(n)
          /\ sendMessage(n, c, content)
    \/ \E n \in Closing, c \in KnownConversationIds, m \in MessageIds :
          /\ uuidCounter < MaxCloseMsgs
          /\ NoPublishRunning(n)
          /\ revokeMessage(n, c, m)
    \/ \E call \in publishing, outcome \in SendOutcomes :
          PublishAttempt(call, outcome)
    \/ \E n \in Closing, c \in KnownConversationIds, outcomes \in HistoryOutcomes :
          fetchHistoryCall(n, c, outcomes)
    \/ \E n \in Closing : fetchHistoryReturns(n)
    \/ \E n \in Closing : close(n)

SpecClose == Started /\ [][NextClose]_vars

\* the payloads instance n has built
PublishedBy(n, S) == {w \in S : w.payload.plain.sender = identity[n].peerId}

(***************************************************************************)
(* C36 -- no transport use after close().  In every step that starts with  *)
(* this.node null on an instance, no payload of the instance reaches the   *)
(* transport, no call of the instance enters the publish part, a pass of a *)
(* retry loop that was running ends in a rejection, no                     *)
(* subscribeToConversation call of the instance reaches                    *)
(* node.filter.subscribe (a fired re-subscribe timer included), and no     *)
(* history query is started; sendMessage on such an instance stores the    *)
(* message, invokes the conversation's handlers with it and returns.       *)
(***************************************************************************)
C36_NoTransportAfterClose ==
    [][\A n \in Peers :
          node[n] = Null
          => /\ PublishedBy(n, network') \subseteq network
             /\ \A call \in publishing' \ publishing : call.sdk # n \/ call.parked
             /\ \A call \in publishing, outcome \in SendOutcomes :
                   (call.sdk = n /\ PublishAttempt(call, outcome))
                   => /\ retryRun'.pc \in {"idle", "loop"}
                      /\ retryRun'.pc = "loop"
                         => retryRun'.calls[Len(retryRun'.calls)] = "TypeError"
                      /\ retryRun'.pc = "idle" => call \notin publishing'
             /\ \A c \in KnownConversationIds :
                   CountOf(subscribing'[n], c) <= CountOf(subscribing[n], c)
             /\ historyCalls'[n].pc \in {"replaying", "parked"}
                   => historyCalls'[n] = historyCalls[n]
             /\ \A c \in KnownConversationIds, content \in Contents :
                   sendMessage(n, c, content)
                   => \E m \in created' \ created :
                         /\ m.id = MessageId(uuidCounter + 1)
                         /\ m.id \notin StoredIds(n)
                         /\ store'[n][c][Len(store'[n][c])] = m
                         /\ Len(NewInvocations(n)) = Len(HandlersOf(n, c))
                         /\ \A i \in 1..Len(NewInvocations(n)) :
                               NewInvocations(n)[i].message = m
                         /\ publishing' = publishing]_vars

\* close() came while a retry loop was running, which has since made a
\* pass without a send after one with a send; a re-subscribe timer is
\* armed; and a message sent after close() is in the log and was handed
\* to the handler
C36_ClosedInFlight ==
    \E n \in Closing :
       /\ node[n] = Null
       /\ \E call \in publishing : call.sdk = n /\ ~call.parked
       /\ retryRun.pc = "loop"
       /\ \E i, j \in 1..Len(retryRun.calls) :
             /\ i < j
             /\ retryRun.calls[i] \in FnErrors
             /\ retryRun.calls[j] = "TypeError"
       /\ \E m \in created :
             /\ m.id = MessageId(2)
             /\ m \in Stored(n)
             /\ m \in Notified(n)
       /\ resubscribeTimers[n] # {}
       /\ network = {}

\* the messages a step appends to the logs of instance n
Appended(n) ==
    UNION {{store'[n][c][i] :
               i \in (IF c \in DOMAIN store[n] THEN Len(store[n][c]) ELSE 0) + 1
                        .. Len(store'[n][c])}
           : c \in DOMAIN store'[n]}

(***************************************************************************)
(* C37 -- the seen-id set.  On every instance the seen-id set holds the id *)
(* of every message in the store; no step removes an id from it, a delete  *)
(* and close() included; and a step adds an id to it exactly when it       *)
(* appends a message with that id to a log, which it does only for an id   *)
(* that was not in the set.                                                *)
(***************************************************************************)
C37_SeenIdsGrowWithStore ==
    [][\A n \in Peers :
          /\ StoredIds(n) \subseteq processedMessageIds[n]
          /\ StoredIds(n)' \subseteq processedMessageIds'[n]
          /\ processedMessageIds[n] \subseteq processedMessageIds'[n]
          /\ processedMessageIds'[n] \ processedMessageIds[n]
                = {m.id : m \in Appended(n)}
          /\ \A c \in KnownConversationIds, id \in MessageIds \cup {ForeignId} :
                deleteMessageLocally(n, c, id)
                => processedMessageIds'[n] = processedMessageIds[n]
          /\ close(n) => processedMessageIds' = processedMessageIds]_vars

\* a closed instance whose seen-id set holds the id of a message it has
\* deleted from its log, next to the id of one it still stores
C37_DeletedIdStillSeen ==
    \E n \in Pair :
       /\ node[n] = Null
       /\ StoredIds(n) # {}
       /\ processedMessageIds[n] \ StoredIds(n) # {}
       /\ \E m \in created : m.id \in processedMessageIds[n] \ StoredIds(n)

====
